---- MODULE Spec2Model ----
(***************************************************************************)
(* Fixture generation, match-result verification and standings engine of   *)
(* the eFootball tournament backend.                                        *)
(*                                                                          *)
(* Documents are records that keep the field names of the mongoose         *)
(* schemas.  Object ids are small integers and are compared as values; an  *)
(* unset reference (null / undefined) is NoUser, an unset score is Null.   *)
(***************************************************************************)
EXTENDS Integers, Sequences, FiniteSets, TLC

\* ------------------------------------------------------------------ bounds
MaxScore == 3
RandDen == 9
MaxRotate == 2
MaxClock == 2
MaxLeague == 5
MaxEntrants == 5
MaxCapacity == 4
MaxPending == 1
MaxRequests == 2
MaxMatches == 3
MaxPayments == 2
MaxTally == 1
MaxTotal == 4
MaxRaced == 1
MaxDay == 14
MaxCounted == 2

\* --------------------------------------------------------------- identities
NoUser == 0
Null == 0 - 1
Players == {1, 2, 3}
Admin == 20
Organizer == 21
Scores == {1, MaxScore}

\* leaderboardSettings defaults
pointsForWin == 3
pointsForDraw == 1
pointsForLoss == 0

\* defaults of fixtureSettings
matchesPerDay == 3
matchDuration == 30
breakBetweenMatches == 15

\* settings.capacity: min
minCapacity == 2

\* leaderboardSchema: rank min, winRate max
minRank == 1
maxWinRate == 100

Min(a, b) == IF a < b THEN a ELSE b

\* ------------------------------------------------------------ match documents
NoSlot == [present |-> FALSE, user |-> NoUser, score |-> Null, confirmed |-> FALSE]

Slot(u) == [present |-> TRUE, user |-> u, score |-> Null, confirmed |-> FALSE]

NoResult == [winner |-> NoUser, loser |-> NoUser, isDraw |-> FALSE, confirmedBy |-> NoUser]

\* round labels: kind is the text shape, r the round number, n the player count
Label(kind, r, n) == [kind |-> kind, r |-> r, n |-> n]

\* a scheduledTime: the day counted in playing days from the tournament start,
\* the minute counted from startTime
NoTime == [day |-> Null, minute |-> Null]

NewMatch(round, matchNumber, p1, p2, status, result) ==
    [round |-> round, matchNumber |-> matchNumber, player1 |-> p1, player2 |-> p2,
     status |-> status, result |-> result, scheduledTime |-> NoTime]

\* the required paths of matchSchema: player1.user, player2.user, scheduledTime
\* (round and matchNumber are always given)
Validates(m) ==
    /\ m.player1.present /\ m.player1.user # NoUser
    /\ m.player2.present /\ m.player2.user # NoUser
    /\ m.scheduledTime # NoTime

\* outcome of a document method: the document as left in memory and whether it threw
Ok(doc) == [doc |-> doc, err |-> "none"]

Throw(doc, e) == [doc |-> doc, err |-> e]

\* verifyResult with the first comparison written >= : equal scores make player1 win
verifyResultTiesToPlayer1(m, adminId) ==
    IF m.player1.score = Null \/ m.player2.score = Null
    THEN Throw(m, "both_must_submit")
    ELSE LET r == IF m.player1.score >= m.player2.score
                  THEN [m.result EXCEPT !.winner = m.player1.user,
                                        !.loser = m.player2.user, !.isDraw = FALSE]
                  ELSE [m.result EXCEPT !.winner = m.player2.user,
                                        !.loser = m.player1.user, !.isDraw = FALSE]
         IN Ok([m EXCEPT !.result = [r EXCEPT !.confirmedBy = adminId],
                         !.status = "completed"])

\* matchSchema.methods.verifyResult: the document it saves
verifyResult(m, adminId) ==
    IF m.player1.score = Null \/ m.player2.score = Null
    THEN Throw(m, "both_must_submit")
    ELSE LET r == IF m.player1.score > m.player2.score
                  THEN [m.result EXCEPT !.winner = m.player1.user,
                                        !.loser = m.player2.user, !.isDraw = FALSE]
                  ELSE IF m.player2.score > m.player1.score
                  THEN [m.result EXCEPT !.winner = m.player2.user,
                                        !.loser = m.player1.user, !.isDraw = FALSE]
                  ELSE [m.result EXCEPT !.isDraw = TRUE]
         IN Ok([m EXCEPT !.result = [r EXCEPT !.confirmedBy = adminId],
                         !.status = "completed"])

\* the tail of both submit paths: auto-verify when the scores agree, else dispute
reconcile(m, confirmer) ==
    IF m.player1.confirmed /\ m.player2.confirmed
    THEN IF m.player1.score = m.player2.score
         THEN verifyResult(m, confirmer)
         ELSE Ok([m EXCEPT !.status = "disputed"])
    ELSE Ok(m)

\* matchSchema.methods.submitScore(player, score); player is the slot name
submitScore(m, player, score) ==
    IF m.status = "completed" THEN Throw(m, "already_completed")
    ELSE IF player = "player1"
    THEN reconcile([m EXCEPT !.player1.score = score, !.player1.confirmed = TRUE], NoUser)
    ELSE IF player = "player2"
    THEN reconcile([m EXCEPT !.player2.score = score, !.player2.confirmed = TRUE], NoUser)
    ELSE Throw(m, "invalid_player")

\* ------------------------------------------------------- tournament documents
ZeroStats == [matchesPlayed |-> 0, wins |-> 0, draws |-> 0, losses |-> 0,
              goalsFor |-> 0, goalsAgainst |-> 0, points |-> 0]

Participant(u, seed) == [player |-> u, status |-> "registered", seed |-> seed, stats |-> ZeroStats]

DefaultTiebreakers == <<"points", "goalDifference", "goalsFor", "headToHead">>

\* tournamentSchema.virtual('participantCount')
participantCount(t) ==
    Cardinality({i \in 1..Len(t.participants) : t.participants[i].status = "registered"})

\* tournamentSchema.pre('save'): the status follows the clock on every save
preSave(t, clock) ==
    LET a == IF t.schedule.tournamentStart # Null /\ clock >= t.schedule.tournamentStart
             THEN [t EXCEPT !.status = "active"] ELSE t
    IN IF t.schedule.tournamentEnd # Null /\ clock > t.schedule.tournamentEnd
       THEN [a EXCEPT !.status = "completed"] ELSE a

\* tournamentSchema.methods.addParticipant up to its save: the seed is taken
\* before the push, the capacity test of the fixture trigger after it
addParticipant(t, userId) ==
    IF \E i \in 1..Len(t.participants) : t.participants[i].player = userId
    THEN [doc |-> t, err |-> "already_registered", generate |-> FALSE]
    ELSE IF participantCount(t) >= t.settings.capacity
    THEN [doc |-> t, err |-> "full", generate |-> FALSE]
    ELSE LET pushed == [t EXCEPT !.participants =
                            Append(@, Participant(userId, participantCount(t) + 1))]
         IN [doc |-> pushed, err |-> "none",
             generate |-> /\ participantCount(pushed) + 1 = t.settings.capacity
                          /\ t.format # "league"]

\* tournamentSchema.methods.removeParticipant up to its save
removeParticipant(t, userId) ==
    IF \E i \in 1..Len(t.participants) : t.participants[i].player = userId
    THEN LET i == CHOOSE j \in 1..Len(t.participants) :
                     /\ t.participants[j].player = userId
                     /\ \A k \in 1..(j - 1) : t.participants[k].player # userId
         IN Ok([t EXCEPT !.participants =
                    SubSeq(@, 1, i - 1) \o SubSeq(@, i + 1, Len(@))])
    ELSE Throw(t, "not_registered")

\* the part of tournamentSchema.methods.generateFixtures that runs before its
\* first await: the two guards, which reject the promise
FixturesRejected(t) == t.status = "completed" \/ participantCount(t) < 2

\* ----------------------------------------------------------------- fixtures
\* Math.floor(Math.random() * len), Math.random() being r / RandDen
RandomIndex(r, len) == (r * len) \div RandDen

RemoveAt(s, i) == SubSeq(s, 1, i - 1) \o SubSeq(s, i + 1, Len(s))

\* getRoundName(round, participantCount)
getRoundName(round, count) ==
    CASE count = 2 -> Label("Final", 0, 0)
      [] count = 4 -> IF round = 1 THEN Label("Semi-Finals", 0, 0) ELSE Label("Final", 0, 0)
      [] count = 8 -> IF round = 1 THEN Label("Quarter-Finals", 0, 0)
                      ELSE IF round = 2 THEN Label("Semi-Finals", 0, 0)
                      ELSE Label("Final", 0, 0)
      [] count = 16 -> IF round = 1 THEN Label("Round of 16", 0, 0)
                       ELSE IF round = 2 THEN Label("Quarter-Finals", 0, 0)
                       ELSE IF round = 3 THEN Label("Semi-Finals", 0, 0)
                       ELSE Label("Final", 0, 0)
      [] OTHER -> IF count <= 4 THEN Label("Round", round, 0)
                  ELSE Label("RoundTop", round, count)

\* the pairing with player1 always taken from the head of the round
KnockoutMatchFromHead(cur, i, roundName, matchNumber) ==
    LET player1 == cur[1]
        player2 == IF i + 2 <= Len(cur) THEN cur[i + 2] ELSE NoUser
    IN IF player2 # NoUser
       THEN NewMatch(roundName, matchNumber, Slot(player1), Slot(player2), "scheduled", NoResult)
       ELSE NewMatch(roundName, matchNumber, Slot(player1), NoSlot, "completed",
                     [NoResult EXCEPT !.winner = player1, !.confirmedBy = Organizer])

\* the match pushed for the pair starting at 0-based index i of the round
KnockoutMatch(cur, i, roundName, matchNumber) ==
    LET player1 == cur[i + 1]
        player2 == IF i + 2 <= Len(cur) THEN cur[i + 2] ELSE NoUser
    IN IF player2 # NoUser
       THEN NewMatch(roundName, matchNumber, Slot(player1), Slot(player2), "scheduled", NoResult)
       ELSE NewMatch(roundName, matchNumber, Slot(player1), NoSlot, "completed",
                     [NoResult EXCEPT !.winner = player1, !.confirmedBy = Organizer])

\* what the pair contributes to nextRound: a placeholder, or the player with the bye
KnockoutAdvance(cur, i) ==
    IF i + 2 <= Len(cur) /\ cur[i + 2] # NoUser THEN NoUser ELSE cur[i + 1]

\* generateKnockoutFixtures: the while loop, one iteration per round;
\* rnd[d] is the d-th Math.random() draw, draw counts the draws made so far
RECURSIVE KnockoutRounds(_, _, _, _, _)
KnockoutRounds(currentRound, round, matchNumber, rnd, draw) ==
    IF Len(currentRound) <= 1 THEN <<>>
    ELSE LET roundName == getRoundName(round, Len(currentRound))
             odd == Len(currentRound) % 2 # 0
             byeIndex == RandomIndex(rnd[(draw % Len(rnd)) + 1], Len(currentRound))
             byes == IF odd THEN <<currentRound[byeIndex + 1]>> ELSE <<>>
             cur == IF odd THEN RemoveAt(currentRound, byeIndex + 1) ELSE currentRound
             pairs == (Len(cur) + 1) \div 2
             made == [k \in 1..pairs |->
                        KnockoutMatch(cur, 2 * (k - 1), roundName, matchNumber + k - 1)]
             nextRound == byes \o [k \in 1..pairs |-> KnockoutAdvance(cur, 2 * (k - 1))]
         IN made \o KnockoutRounds(nextRound, round + 1, matchNumber + pairs, rnd,
                                   IF odd THEN draw + 1 ELSE draw)

generateKnockoutFixtures(participants, rnd) == KnockoutRounds(participants, 1, 1, rnd, 0)

\* TournamentController.generateMatches: one round of consecutive pairs
generateMatches(format, shuffled) ==
    IF format = "knockout"
    THEN [k \in 1..(Len(shuffled) \div 2) |->
            [NewMatch(Label("Round of 16", 0, 0), k, Slot(shuffled[2 * k - 1]),
                      Slot(shuffled[2 * k]), "scheduled", NoResult)
               EXCEPT !.scheduledTime = [day |-> 0, minute |-> 0]]]
    ELSE <<>>

\* teams after `round` rotations: [teams[0], teams[last], ...teams.slice(1, -1)]
RECURSIVE TeamsAt(_, _)
TeamsAt(teams, round) ==
    IF round = 0 THEN teams
    ELSE LET t == TeamsAt(teams, round - 1)
         IN <<t[1], t[Len(t)]>> \o SubSeq(t, 2, Len(t) - 1)

\* generateLeagueFixtures
generateLeagueFixtures(participants) ==
    LET n == Len(participants)
        rounds == n - 1
        matchesPerRound == n \div 2
    IN [k \in 1..(rounds * matchesPerRound) |->
          LET round == (k - 1) \div matchesPerRound
              match == (k - 1) % matchesPerRound
              teams == TeamsAt(participants, round)
              home == (round + match) % (n - 1)
              away == IF match = 0 THEN n - 1 ELSE (n - 1 - match + round) % (n - 1)
          IN NewMatch(Label("Round", round + 1, 0), k, Slot(teams[home + 1]),
                      Slot(teams[away + 1]), "scheduled", NoResult)]

\* a.round.localeCompare(b.round) < 0 on the labels the generators produce
KindRank(kind) ==
    CASE kind = "Num" -> 0
      [] kind = "Final" -> 1
      [] kind = "Group" -> 2
      [] kind = "Quarter-Finals" -> 3
      [] kind = "Round" -> 4
      [] kind = "RoundTop" -> 4
      [] kind = "Round of 16" -> 5
      [] OTHER -> 6

RoundBefore(a, b) ==
    \/ KindRank(a.kind) < KindRank(b.kind)
    \/ /\ KindRank(a.kind) = KindRank(b.kind)
       /\ \/ a.r < b.r
          \/ a.r = b.r /\ a.n < b.n

\* scheduleMatches: matches.sort by round (Array.prototype.sort is stable)
RECURSIVE SortByRound(_)
SortByRound(ms) ==
    IF Len(ms) <= 1 THEN ms
    ELSE LET rest == SortByRound(SubSeq(ms, 1, Len(ms) - 1))
             x == ms[Len(ms)]
             k == Cardinality({i \in 1..Len(rest) : ~RoundBefore(x.round, rest[i].round)})
         IN SubSeq(rest, 1, k) \o <<x>> \o SubSeq(rest, k + 1, Len(rest))

\* scheduleMatches: matchesPerDay matches a day, one every
\* matchDuration + breakBetweenMatches minutes
scheduleMatches(ms) ==
    LET sorted == SortByRound(ms)
    IN [k \in 1..Len(sorted) |->
          [sorted[k] EXCEPT !.scheduledTime =
              [day |-> (k - 1) \div matchesPerDay,
               minute |-> ((k - 1) % matchesPerDay) * (matchDuration + breakBetweenMatches)]]]

Rotate(s, k) == [i \in 1..Len(s) |-> s[((i - 1 + k) % Len(s)) + 1]]

Reverse(s) == [i \in 1..Len(s) |-> s[Len(s) + 1 - i]]

\* [...ids].sort(() => 0.5 - Math.random()): some of the orders it can return
Shuffles(s) ==
    IF Len(s) = 0 THEN {s}
    ELSE {Rotate(s, k) : k \in 0..Min(Len(s) - 1, MaxRotate)}
         \cup {Reverse(Rotate(s, k)) : k \in 0..Min(Len(s) - 1, MaxRotate)}

\* generateFixtures(tournament) of the fixture generator
generateFixtures(t, shuffled, rnd) ==
    LET ms == CASE t.format = "knockout" -> generateKnockoutFixtures(shuffled, rnd)
                [] t.format = "league" -> generateLeagueFixtures(shuffled)
                [] OTHER -> <<>>
    IN scheduleMatches(ms)

\* ---------------------------------------------------------------- standings
IndexOf(ps, u) ==
    IF \E i \in 1..Len(ps) : ps[i].player = u
    THEN CHOOSE i \in 1..Len(ps) : ps[i].player = u /\ \A j \in 1..(i - 1) : ps[j].player # u
    ELSE 0

OrZero(score) == IF score = Null THEN 0 ELSE score

\* the body of tournament.matches.forEach for one completed match
ApplyMatch(ps, m) ==
    LET i1 == IndexOf(ps, m.player1.user)
        i2 == IndexOf(ps, m.player2.user)
    IN IF i1 = 0 \/ i2 = 0 THEN ps
       ELSE LET g1 == OrZero(m.player1.score)
                g2 == OrZero(m.player2.score)
                played == [ps EXCEPT
                    ![i1].stats.matchesPlayed = @ + 1, ![i2].stats.matchesPlayed = @ + 1,
                    ![i1].stats.goalsFor = @ + g1, ![i1].stats.goalsAgainst = @ + g2,
                    ![i2].stats.goalsFor = @ + g2, ![i2].stats.goalsAgainst = @ + g1]
            IN IF m.result.isDraw
               THEN [played EXCEPT ![i1].stats.draws = @ + 1, ![i2].stats.draws = @ + 1,
                                   ![i1].stats.points = @ + pointsForDraw,
                                   ![i2].stats.points = @ + pointsForDraw]
               ELSE IF m.result.winner # NoUser
               THEN IF m.result.winner = ps[i1].player
                    THEN [played EXCEPT ![i1].stats.wins = @ + 1, ![i2].stats.losses = @ + 1,
                                        ![i1].stats.points = @ + pointsForWin,
                                        ![i2].stats.points = @ + pointsForLoss]
                    ELSE [played EXCEPT ![i2].stats.wins = @ + 1, ![i1].stats.losses = @ + 1,
                                        ![i2].stats.points = @ + pointsForWin,
                                        ![i1].stats.points = @ + pointsForLoss]
               ELSE played

RECURSIVE FoldMatches(_, _)
FoldMatches(ps, ms) ==
    IF ms = <<>> THEN ps ELSE FoldMatches(ApplyMatch(ps, Head(ms)), Tail(ms))

\* the tiebreaker loop with the goalsFor comparison the wrong way round
RECURSIVE TieBreak(_, _, _, _)
TieBreakFewerGoalsFirst(a, b, tb, i) ==
    IF i > Len(tb) THEN "eq"
    ELSE LET diffA == a.stats.goalsFor - a.stats.goalsAgainst
             diffB == b.stats.goalsFor - b.stats.goalsAgainst
         IN CASE tb[i] = "goalDifference" ->
                   IF diffA # diffB THEN (IF diffB - diffA < 0 THEN "a" ELSE "b")
                   ELSE TieBreak(a, b, tb, i + 1)
              [] tb[i] = "goalsFor" ->
                   IF a.stats.goalsFor # b.stats.goalsFor
                   THEN (IF a.stats.goalsFor - b.stats.goalsFor < 0 THEN "a" ELSE "b")
                   ELSE TieBreak(a, b, tb, i + 1)
              [] tb[i] = "headToHead" -> "random"
              [] tb[i] = "alphabetical" ->
                   IF a.player < b.player THEN "a" ELSE IF a.player > b.player THEN "b" ELSE "eq"
              [] OTHER -> TieBreak(a, b, tb, i + 1)

\* the for loop over leaderboardSettings.tiebreakers inside the comparator
TieBreak(a, b, tb, i) ==
    IF i > Len(tb) THEN "eq"
    ELSE LET diffA == a.stats.goalsFor - a.stats.goalsAgainst
             diffB == b.stats.goalsFor - b.stats.goalsAgainst
         IN CASE tb[i] = "goalDifference" ->
                   IF diffA # diffB THEN (IF diffB - diffA < 0 THEN "a" ELSE "b")
                   ELSE TieBreak(a, b, tb, i + 1)
              [] tb[i] = "goalsFor" ->
                   IF a.stats.goalsFor # b.stats.goalsFor
                   THEN (IF b.stats.goalsFor - a.stats.goalsFor < 0 THEN "a" ELSE "b")
                   ELSE TieBreak(a, b, tb, i + 1)
              [] tb[i] = "headToHead" -> "random"
              [] tb[i] = "alphabetical" ->
                   IF a.player < b.player THEN "a" ELSE IF a.player > b.player THEN "b" ELSE "eq"
              [] OTHER -> TieBreak(a, b, tb, i + 1)

\* the comparator of tournament.participants.sort: "a" puts a first, "b" puts b
\* first, "eq" is 0, "random" is the sign of Math.random() - 0.5
Compare(a, b, tb) ==
    IF a.stats.points # b.stats.points
    THEN (IF b.stats.points - a.stats.points < 0 THEN "a" ELSE "b")
    ELSE TieBreak(a, b, tb, 1)

Orderings(n) == {q \in [1..n -> 1..n] : \A i, j \in 1..n : i # j => q[i] # q[j]}

\* the orders the sort can leave: decided pairs in order, 0-ties stable,
\* random ties either way
SortOutcomes(ps, tb) ==
    {[i \in 1..Len(ps) |-> ps[q[i]]] : q \in
        {q \in Orderings(Len(ps)) :
            \A i, j \in 1..Len(ps) : i < j =>
                LET c == Compare(ps[q[i]], ps[q[j]], tb)
                IN c = "a" \/ c = "random" \/ (c = "eq" /\ q[i] < q[j])}}

\* populate({path: 'matches', match: {status: 'completed'}})
CompletedOf(t, coll) ==
    LET ids == {i \in 1..Len(t.matches) : coll[t.matches[i]].status = "completed"}
        F[k \in 0..Len(t.matches)] ==
            IF k = 0 THEN <<>>
            ELSE IF k \in ids THEN Append(F[k - 1], coll[t.matches[k]]) ELSE F[k - 1]
    IN F[Len(t.matches)]

\* reading .user._id of a null player throws inside the forEach
StandingsThrows(t, coll) ==
    /\ Len(t.participants) > 0
    /\ \E i \in 1..Len(t.matches) :
          /\ coll[t.matches[i]].status = "completed"
          /\ \/ coll[t.matches[i]].player1.user = NoUser
             \/ ~coll[t.matches[i]].player2.present
             \/ coll[t.matches[i]].player2.user = NoUser

\* updateTournamentLeaderboard: the tournament documents it can save
updateTournamentLeaderboard(t, coll) ==
    LET reset == [i \in 1..Len(t.participants) |->
                    [t.participants[i] EXCEPT !.stats = ZeroStats]]
        folded == FoldMatches(reset, CompletedOf(t, coll))
    IN {[t EXCEPT !.participants = s] :
            s \in SortOutcomes(folded, t.leaderboardSettings.tiebreakers)}

\* tournamentSchema.methods.getLeaderboard: the orders the sorted copy can have
getLeaderboard(t) == SortOutcomes(t.participants, t.leaderboardSettings.tiebreakers)

\* the reduce calls of getStandings: the goals player u scored (own) or conceded
RECURSIVE GoalsOf(_, _, _)
GoalsOf(u, ms, own) ==
    IF ms = <<>> THEN 0
    ELSE LET m == Head(ms)
             first == m.player1.user = u
         IN (IF first = own THEN OrZero(m.player1.score) ELSE OrZero(m.player2.score))
            + GoalsOf(u, Tail(ms), own)

\* Match.find({tournament, status: 'completed'}) narrowed to the matches of u
RECURSIVE PlayerMatches(_, _)
PlayerMatches(u, coll) ==
    IF coll = <<>> THEN <<>>
    ELSE (IF Head(coll).status = "completed"
             /\ (Head(coll).player1.user = u \/ Head(coll).player2.user = u)
          THEN <<Head(coll)>> ELSE <<>>) \o PlayerMatches(u, Tail(coll))

\* one row of getStandings, kept in the shape of a participant: the points
\* are wins * 3 + draws whatever the tournament's settings say
StandingsRow(u, mine) ==
    LET wins == Cardinality({k \in 1..Len(mine) : mine[k].result.winner = u})
        losses == Cardinality({k \in 1..Len(mine) : mine[k].result.loser = u})
        draws == Cardinality({k \in 1..Len(mine) : mine[k].result.isDraw})
    IN [player |-> u,
        stats |-> [matchesPlayed |-> Len(mine), wins |-> wins, draws |-> draws,
                   losses |-> losses, goalsFor |-> GoalsOf(u, mine, TRUE),
                   goalsAgainst |-> GoalsOf(u, mine, FALSE),
                   points |-> wins * 3 + draws]]

\* TournamentController.getStandings: rows sorted by points, goal difference
\* and goals for
getStandings(t, coll) ==
    SortOutcomes([i \in 1..Len(t.participants) |->
                     StandingsRow(t.participants[i].player,
                                  PlayerMatches(t.participants[i].player, coll))],
                 <<"goalDifference", "goalsFor">>)

\* ------------------------------------------------------ knockout progression
\* parseInt(m.round) || 0
ParseRound(label) == IF label.kind = "Num" THEN label.r ELSE 0

\* Math.max(...rounds); Null stands for the -Infinity of an empty list
MaxOf(S) == IF S = {} THEN Null ELSE CHOOSE x \in S : \A y \in S : y <= x

\* the winners collected from the matches of the last round, in match order
RECURSIVE CollectWinners(_)
CollectWinners(ms) ==
    IF ms = <<>> THEN <<>>
    ELSE LET m == Head(ms)
         IN (IF m.result.winner # NoUser THEN <<m.result.winner>>
             ELSE IF m.player1.present /\ ~m.player2.present THEN <<m.player1.user>>
             ELSE <<>>) \o CollectWinners(Tail(ms))

\* ms.filter(m => m.round === label)
RECURSIVE OfRound(_, _)
OfRound(ms, label) ==
    IF ms = <<>> THEN <<>>
    ELSE (IF Head(ms).round = label THEN <<Head(ms)>> ELSE <<>>) \o OfRound(Tail(ms), label)

\* generateNextKnockoutRound: the collection and the tournament it leaves
\* (the tournament before its save), and whether a save threw
generateNextKnockoutRound(t, coll, r) ==
    LET tms == [i \in 1..Len(t.matches) |-> coll[t.matches[i]]]
        lastRound == MaxOf({ParseRound(tms[i].round) : i \in 1..Len(tms)})
        nextRound == lastRound + 1
        won == CollectWinners(OfRound(tms, Label("Num", lastRound, 0)))
        odd == Len(won) > 1 /\ Len(won) % 2 # 0
        byeIndex == RandomIndex(r, Len(won))
        byePlayer == won[byeIndex + 1]
        winners == IF odd THEN Append(RemoveAt(won, byeIndex + 1), byePlayer) ELSE won
        byeMatch == NewMatch(Label("Num", nextRound, 0), Len(t.matches) + 1,
                             Slot(byePlayer), NoSlot, "completed",
                             [NoResult EXCEPT !.winner = byePlayer, !.confirmedBy = Organizer])
        byes == IF odd THEN <<byeMatch>> ELSE <<>>
        pairs == Len(winners) \div 2
        made == [k \in 1..pairs |->
                    NewMatch(Label("Num", nextRound, 0), Len(t.matches) + Len(byes) + k,
                             Slot(winners[2 * k - 1]), Slot(winners[2 * k]),
                             "scheduled", NoResult)]
        added == byes \o made
        \* each new match is saved in turn; the first one failing validation throws
        bad == {k \in 1..Len(added) : ~Validates(added[k])}
        firstBad == IF bad = {} THEN 0 ELSE CHOOSE k \in bad : \A j \in bad : k <= j
        t1 == [t EXCEPT !.matches = @ \o [k \in 1..Len(added) |-> Len(coll) + k]]
        final == Len(winners) <= 1
        t2 == IF final
              THEN [t1 EXCEPT !.status = "completed",
                              !.winner = IF Len(winners) = 1 THEN winners[1] ELSE NoUser]
              ELSE t1
    IN IF firstBad # 0
       THEN [t |-> t, coll |-> coll \o SubSeq(added, 1, firstBad - 1),
             final |-> FALSE, err |-> TRUE]
       ELSE [t |-> t2, coll |-> coll \o added, final |-> final, err |-> FALSE]

\* ------------------------------------------------------- global leaderboard
\* new Leaderboard({ player, type, period }): the schema defaults; winRate is
\* kept as the fraction num / den
NewEntry(player) ==
    [player |-> player, points |-> 0, wins |-> 0, losses |-> 0, draws |-> 0,
     totalMatches |-> 0, winRate |-> [num |-> 0, den |-> 1],
     rank |-> 0, previousRank |-> 0, rankChange |-> 0]

\* the validators of leaderboardSchema that save() runs before its hooks: on
\* a new document every defaulted path, on a stored one the counters it changed
EntryValidates(e, isNew) ==
    /\ e.points >= 0 /\ e.wins >= 0 /\ e.losses >= 0 /\ e.draws >= 0
    /\ e.totalMatches >= 0
    /\ isNew => /\ e.rank >= minRank
                /\ e.winRate.num >= 0
                /\ e.winRate.num <= maxWinRate * e.winRate.den

\* leaderboardSchema.pre('save')
entryPreSave(e) ==
    LET a == IF e.totalMatches > 0
             THEN [e EXCEPT !.winRate = [num |-> e.wins * 100, den |-> e.totalMatches]]
             ELSE e
    IN IF a.previousRank > 0 THEN [a EXCEPT !.rankChange = a.previousRank - a.rank] ELSE a

\* sort({ points: -1, wins: -1, winRate: -1 }), equal keys in stored order
RankedBefore(coll, j, i) ==
    LET a == coll[j]
        b == coll[i]
        wa == a.winRate.num * b.winRate.den
        wb == b.winRate.num * a.winRate.den
    IN \/ a.points > b.points
       \/ a.points = b.points /\ a.wins > b.wins
       \/ a.points = b.points /\ a.wins = b.wins /\ wa > wb
       \/ a.points = b.points /\ a.wins = b.wins /\ wa = wb /\ j < i

\* leaderboardSchema.statics.updateRanks
updateRanks(coll) ==
    [i \in 1..Len(coll) |->
        [coll[i] EXCEPT !.previousRank = coll[i].rank,
                        !.rank = 1 + Cardinality({j \in 1..Len(coll) :
                                                    RankedBefore(coll, j, i)})]]

\* leaderboardSchema.statics.updateStatsForMatch on the entry at index idx, or
\* on a new entry when idx = 0; matchResult is 'win', 'loss', 'draw' or
\* anything else
updateStatsForMatch(coll, idx, entry, matchResult) ==
    LET counted == [entry EXCEPT !.totalMatches = @ + 1]
        e == CASE matchResult = "win" -> [counted EXCEPT !.wins = @ + 1, !.points = @ + 3]
               [] matchResult = "loss" -> [counted EXCEPT !.losses = @ + 1]
               [] matchResult = "draw" -> [counted EXCEPT !.draws = @ + 1, !.points = @ + 1]
               [] OTHER -> counted
    IN IF ~EntryValidates(e, idx = 0)
       THEN [coll |-> coll, err |-> TRUE]
       ELSE [coll |-> updateRanks(IF idx = 0 THEN Append(coll, entryPreSave(e))
                                  ELSE [coll EXCEPT ![idx] = entryPreSave(e)]),
             err |-> FALSE]

\* leaderboardSchema.statics.updatePlayerStats for the global board
LeaderboardUpdatePlayerStats(coll, playerId, matchResult) ==
    IF \E i \in 1..Len(coll) : coll[i].player = playerId
    THEN LET idx == CHOOSE i \in 1..Len(coll) : coll[i].player = playerId
         IN updateStatsForMatch(coll, idx, coll[idx], matchResult)
    ELSE updateStatsForMatch(coll, 0, NewEntry(playerId), matchResult)

\* one more awaited Leaderboard.updatePlayerStats call of a handler
ThenStats(r, playerId, matchResult) ==
    IF r.err THEN r ELSE LeaderboardUpdatePlayerStats(r.coll, playerId, matchResult)

\* the first MatchController.updatePlayerStats: the result as a string
updatePlayerStatsByResult(coll, m) ==
    LET start == [coll |-> coll, err |-> FALSE]
    IN IF m.result.winner # NoUser /\ ~m.result.isDraw
       THEN ThenStats(ThenStats(start, m.result.winner, "win"), m.result.loser, "loss")
       ELSE IF m.result.isDraw
       THEN ThenStats(ThenStats(start, m.player1.user, "draw"), m.player2.user, "draw")
       ELSE start

\* the second MatchController.updatePlayerStats: the result as an object,
\* which no case of updateStatsForMatch matches, and as 'draw' on a draw
updatePlayerStats(coll, m) ==
    LET start == [coll |-> coll, err |-> FALSE]
        both == ThenStats(ThenStats(start, m.player1.user, "object"),
                          m.player2.user, "object")
    IN IF m.status # "completed"
       THEN start
       ELSE IF m.result.isDraw
       THEN ThenStats(ThenStats(both, m.player1.user, "draw"), m.player2.user, "draw")
       ELSE both

\* -------------------------------------------------------------------- state
\* matches: the Match collection; tournament: the tournament document; clock:
\* what new Date() returns; last: the handler that ran last and how it
\* answered; inflight: the requests between their read and their save;
\* response: the standings rows in the body of the last response;
\* leaderboard: the entries of the global leaderboard collection;
\* payments: the Payment collection
VARIABLES matches, tournament, clock, last, inflight, response, leaderboard, payments

vars == <<matches, tournament, clock, last, inflight, response, leaderboard, payments>>


AdminIds == {Admin}

Callers == Players

\* the rounds of a knockout bracket of n players that start with an odd count
RECURSIVE OddRounds(_)
OddRounds(n) == IF n <= 1 THEN 0 ELSE (n % 2) + OddRounds((n + 1) \div 2)

\* the Math.random() outcomes fixture generation consumes for n participants:
\* one per bye of a knockout bracket, none for a league
Draws(format, n) ==
    IF format = "knockout" /\ OddRounds(n) > 0
    THEN [1..OddRounds(n) -> 0..(RandDen - 1)]
    ELSE {<<0>>}

\* a stored tournament: settings.capacity is required and at least minCapacity
TournamentWith(format, ps, capacity, status) ==
    [format |-> format, status |-> status, winner |-> NoUser,
     participants |-> [i \in 1..Len(ps) |-> Participant(ps[i], i)],
     matches |-> <<>>,
     settings |-> [capacity |-> capacity],
     schedule |-> [tournamentStart |-> 1, tournamentEnd |-> 2],
     leaderboardSettings |-> [tiebreakers |-> DefaultTiebreakers]]

NewTournament(format, ps) ==
    TournamentWith(format, ps, IF Len(ps) < minCapacity THEN minCapacity ELSE Len(ps),
                   "upcoming")

Done(op, m, caller, score, resp) ==
    [op |-> op, m |-> m, caller |-> caller, score |-> score, resp |-> resp]

Ids(ps) == [i \in 1..Len(ps) |-> ps[i].player]

\* ------------------------------------------------------------------ actions
\* the clock of `new Date()` moves on
Tick ==
    /\ clock < MaxClock
    /\ clock' = clock + 1
    /\ UNCHANGED <<matches, tournament, last, inflight, response, leaderboard, payments>>

\* tournamentSchema.methods.generateFixtures, awaited by its caller
GenerateFixturesCall ==
    /\ IF tournament.status = "completed" \/ participantCount(tournament) < 2
       THEN /\ last' = Done("generateFixtures", 0, Admin, Null, "error")
            /\ UNCHANGED <<matches, tournament>>
       ELSE \E shuffled \in Shuffles(Ids(tournament.participants)),
                  rnd \in Draws(tournament.format, Len(tournament.participants)) :
              LET ms == generateFixtures(tournament, shuffled, rnd)
              IN IF \E k \in 1..Len(ms) : ~Validates(ms[k])
                 \* Match.insertMany rejects the batch
                 THEN /\ last' = Done("generateFixtures", 0, Admin, Null, "error")
                      /\ UNCHANGED <<matches, tournament>>
                 ELSE /\ matches' = matches \o ms
                      /\ tournament' = preSave([tournament EXCEPT
                             !.matches = [k \in 1..Len(ms) |-> Len(matches) + k],
                             !.status = "upcoming"], clock)
                      /\ last' = Done("generateFixtures", 0, Admin, Null, "ok")
    /\ UNCHANGED <<clock, inflight>>
    /\ response' = <<>>
    /\ UNCHANGED <<leaderboard, payments>>

\* the first call for a tournament
GenerateFixtures == Len(matches) = 0 /\ GenerateFixturesCall

\* a further call for a tournament that has matches
RegenerateFixtures ==
    /\ Len(matches) > 0
    /\ Len(matches) < MaxMatches
    /\ GenerateFixturesCall

\* TournamentController.generateFixtures, the admin trigger, with its
\* generateMatches
AdminGenerateFixtures ==
    /\ Len(matches) < MaxMatches
    /\ IF tournament.status # "upcoming" \/ participantCount(tournament) < 2
       THEN /\ last' = Done("adminGenerateFixtures", 0, Admin, Null, "rejected")
            /\ UNCHANGED matches
       ELSE \E shuffled \in Shuffles(Ids(tournament.participants)) :
            \E ms \in {generateMatches(tournament.format, shuffled)} :
               IF \E k \in 1..Len(ms) : ~Validates(ms[k])
               THEN /\ last' = Done("adminGenerateFixtures", 0, Admin, Null, "error")
                    /\ UNCHANGED matches
               ELSE /\ last' = Done("adminGenerateFixtures", 0, Admin, Null, "ok")
                    /\ matches' = matches \o ms
    /\ response' = <<>>
    /\ UNCHANGED <<tournament, clock, inflight, leaderboard, payments>>

\* reading .user._id of a missing player throws in the handlers
PlayersMissing(m) == m.player1.user = NoUser \/ ~m.player2.present \/ m.player2.user = NoUser

\* req.user.id handed over as the `player` argument: an object id is never
\* the text 'player1' or 'player2'
IdAsPlayer(caller) == "id"

\* POST /:id/submit-score and the first MatchController.submitScore
RouteSubmitScore(i, caller, score) ==
    LET m == matches[i]
        out == submitScore(m, IdAsPlayer(caller), score)
    IN /\ IF PlayersMissing(m)
          THEN /\ last' = Done("routeSubmit", i, caller, score, "error")
               /\ UNCHANGED matches
          ELSE IF m.player1.user # caller /\ m.player2.user # caller
          THEN /\ last' = Done("routeSubmit", i, caller, score, "forbidden")
               /\ UNCHANGED matches
          ELSE IF out.err # "none"
          THEN /\ last' = Done("routeSubmit", i, caller, score, "error")
               /\ UNCHANGED matches
          ELSE /\ last' = Done("routeSubmit", i, caller, score, "ok")
               /\ matches' = [matches EXCEPT ![i] = out.doc]
       /\ UNCHANGED <<tournament, clock, inflight>>
       /\ response' = <<>>
       /\ UNCHANGED <<leaderboard, payments>>

\* matchSchema.methods.submitScore called with a slot name
MatchSubmitScore(i, player, score) ==
    LET out == submitScore(matches[i], player, score)
    IN /\ IF out.err # "none"
          THEN /\ last' = Done("matchSubmit", i, NoUser, score, "error")
               /\ UNCHANGED matches
          ELSE /\ last' = Done("matchSubmit", i, NoUser, score, "ok")
               /\ matches' = [matches EXCEPT ![i] = out.doc]
       /\ UNCHANGED <<tournament, clock, inflight>>
       /\ response' = <<>>
       /\ UNCHANGED <<leaderboard, payments>>

\* the second MatchController.submitScore
CtlSubmitScore(i, caller, score) ==
    LET m == matches[i]
        playerField == IF m.player1.user = caller THEN "player1"
                       ELSE IF m.player2.user = caller THEN "player2" ELSE "none"
        set == IF playerField = "player1"
               THEN [m EXCEPT !.player1.score = score, !.player1.confirmed = TRUE]
               ELSE [m EXCEPT !.player2.score = score, !.player2.confirmed = TRUE]
        both == set.player1.confirmed /\ set.player2.confirmed
        out == reconcile(set, caller)
    IN /\ IF PlayersMissing(m)
          THEN /\ last' = Done("ctlSubmit", i, caller, score, "error")
               /\ UNCHANGED matches
          ELSE IF playerField = "none"
          THEN /\ last' = Done("ctlSubmit", i, caller, score, "forbidden")
               /\ UNCHANGED matches
          ELSE IF out.err # "none"
          THEN /\ last' = Done("ctlSubmit", i, caller, score, "error")
               /\ UNCHANGED matches
          ELSE /\ matches' = [matches EXCEPT ![i] = out.doc]
               \* this.updateTournamentLeaderboard is not a method of the
               \* controller: the call after the auto-verify throws
               /\ last' = Done("ctlSubmit", i, caller, score,
                               IF both /\ set.player1.score = set.player2.score
                               THEN "error" ELSE "ok")
       /\ UNCHANGED <<tournament, clock, inflight>>
       /\ response' = <<>>
       /\ UNCHANGED <<leaderboard, payments>>

\* POST /:id/verify and the first MatchController.verifyResult
RouteVerify(i, adminId) ==
    LET out == verifyResult(matches[i], adminId)
    IN /\ IF out.err # "none"
          THEN /\ last' = Done("routeVerify", i, adminId, Null, "error")
               /\ UNCHANGED matches
          ELSE /\ last' = Done("routeVerify", i, adminId, Null, "ok")
               /\ matches' = [matches EXCEPT ![i] = out.doc]
       /\ UNCHANGED <<tournament, clock, inflight>>
       /\ response' = <<>>
       /\ UNCHANGED <<leaderboard, payments>>

\* the role stored for a user: the admin account, or a player
RoleOf(caller) == IF caller = Admin THEN "admin" ELSE "player"

\* adminAuth of middleware/adminAuth.js: auth accepts a caller with a valid
\* token (NoUser sends none) and the role test lets the admin through
adminAuth(caller) ==
    IF caller # NoUser /\ RoleOf(caller) = "admin"
    THEN [pass |-> TRUE, id |-> caller]
    ELSE [pass |-> FALSE, id |-> NoUser]

\* the other adminAuth of the repository: req.user = { role: 'admin' } for
\* every request, an object without an id
adminAuthBypass(caller) == [pass |-> TRUE, id |-> NoUser]

\* the two middlewares a build can load as '../middleware/adminAuth'
Middlewares == {"adminAuth", "adminAuthBypass"}

\* a request to POST /api/matches/:id/verify: the middleware, then the handler
\* with req.user.id as the confirmer
VerifyRequest(i, caller, middleware) ==
    LET user == IF middleware = "adminAuth" THEN adminAuth(caller)
                ELSE adminAuthBypass(caller)
        out == verifyResult(matches[i], user.id)
    IN /\ IF ~user.pass
          THEN /\ last' = Done("verifyRequest", i, caller, Null, "denied")
               /\ UNCHANGED matches
          ELSE IF out.err # "none"
          THEN /\ last' = Done("verifyRequest", i, caller, Null, "error")
               /\ UNCHANGED matches
          ELSE /\ last' = Done("verifyRequest", i, caller, Null, "ok")
               /\ matches' = [matches EXCEPT ![i] = out.doc]
       /\ response' = <<>>
       /\ UNCHANGED <<tournament, clock, inflight, leaderboard, payments>>

\* a request to POST /api/admin/matches/:id/verify: no middleware sets
\* req.user, so reading req.user.id throws before verifyResult is called
AdminRouteVerify(i, caller) ==
    /\ last' = Done("adminRouteVerify", i, caller, Null, "error")
    /\ response' = <<>>
    /\ UNCHANGED <<matches, tournament, clock, inflight, leaderboard, payments>>

\* the second MatchController.verifyResult
CtlVerify(i, adminId) ==
    LET m == matches[i]
        knockout == tournament.format = "knockout" /\ m.status = "completed"
    IN /\ UNCHANGED <<clock, inflight, payments>>
       /\ response' = <<>>
       /\ IF StandingsThrows(tournament, matches)
          THEN /\ last' = Done("ctlVerify", i, adminId, Null, "error")
               /\ UNCHANGED <<matches, tournament, leaderboard>>
          ELSE \E t1 \in updateTournamentLeaderboard(tournament, matches),
                  r \in (IF knockout THEN 0..(RandDen - 1) ELSE {0}) :
          \E nx \in {IF knockout
                      THEN generateNextKnockoutRound(preSave(t1, clock), matches, r)
                      ELSE [t |-> t1, coll |-> matches, final |-> FALSE, err |-> FALSE]} :
            LET ts1 == preSave(t1, clock)
                ts2 == IF knockout THEN preSave(nx.t, clock) ELSE ts1
                coll2 == IF knockout THEN nx.coll ELSE matches
                out == verifyResult(m, adminId)
                coll3 == [coll2 EXCEPT ![i] = out.doc]
                lb == updatePlayerStats(leaderboard, out.doc)
            IN IF knockout /\ nx.err
               THEN /\ last' = Done("ctlVerify", i, adminId, Null, "error")
                    /\ matches' = nx.coll
                    /\ tournament' = ts1
                    /\ UNCHANGED leaderboard
               ELSE IF out.err # "none"
               THEN /\ last' = Done("ctlVerify", i, adminId, Null, "error")
                    /\ matches' = coll2
                    /\ tournament' = ts2
                    /\ UNCHANGED leaderboard
               ELSE IF lb.err \/ StandingsThrows(ts2, coll3)
               THEN /\ last' = Done("ctlVerify", i, adminId, Null, "error")
                    /\ matches' = coll3
                    /\ tournament' = ts2
                    /\ leaderboard' = lb.coll
               ELSE \E t3 \in updateTournamentLeaderboard(ts2, coll3) :
                    /\ last' = Done("ctlVerify", i, adminId, Null, "ok")
                    /\ matches' = coll3
                    /\ tournament' = preSave(t3, clock)
                    /\ leaderboard' = lb.coll

\* the first MatchController.verifyResult
CtlVerifyByResult(i, adminId) ==
    LET out == verifyResult(matches[i], adminId)
        lb == updatePlayerStatsByResult(leaderboard, out.doc)
    IN /\ IF out.err # "none"
          THEN /\ last' = Done("ctlVerifyByResult", i, adminId, Null, "error")
               /\ UNCHANGED <<matches, leaderboard>>
          ELSE /\ last' = Done("ctlVerifyByResult", i, adminId, Null,
                               IF lb.err THEN "error" ELSE "ok")
               /\ matches' = [matches EXCEPT ![i] = out.doc]
               /\ leaderboard' = lb.coll
       /\ UNCHANGED <<tournament, clock, inflight, payments>>
       /\ response' = <<>>

\* tournamentSchema.methods.updateLeaderboard
UpdateLeaderboard ==
    /\ UNCHANGED <<matches, clock, inflight>>
    /\ response' = <<>>
    /\ UNCHANGED <<leaderboard, payments>>
    /\ IF StandingsThrows(tournament, matches)
       THEN /\ last' = Done("updateLeaderboard", 0, Admin, Null, "error")
            /\ UNCHANGED tournament
       ELSE \E t1 \in updateTournamentLeaderboard(tournament, matches) :
            /\ tournament' = preSave(t1, clock)
            /\ last' = Done("updateLeaderboard", 0, Admin, Null, "ok")

\* a caller reads tournament.getLeaderboard()
GetLeaderboard ==
    /\ response' \in getLeaderboard(tournament)
    /\ UNCHANGED <<leaderboard, payments>>
    /\ last' = Done("getLeaderboard", 0, NoUser, Null, "ok")
    /\ UNCHANGED <<matches, tournament, clock, inflight>>

\* GET /:id/standings
GetStandings ==
    /\ response' \in getStandings(tournament, matches)
    /\ UNCHANGED <<leaderboard, payments>>
    /\ last' = Done("getStandings", 0, NoUser, Null, "ok")
    /\ UNCHANGED <<matches, tournament, clock, inflight>>

\* tournamentSchema.methods.generateNextKnockoutRound
NextKnockoutRound ==
    /\ UNCHANGED <<clock, inflight>>
    /\ response' = <<>>
    /\ UNCHANGED <<leaderboard, payments>>
    /\ IF tournament.format # "knockout"
       THEN /\ last' = Done("nextRound", 0, Admin, Null, "error")
            /\ UNCHANGED <<matches, tournament>>
       ELSE \E r \in 0..(RandDen - 1) :
            \E nx \in {generateNextKnockoutRound(tournament, matches, r)} :
               /\ matches' = nx.coll
               /\ tournament' = IF nx.err THEN tournament ELSE preSave(nx.t, clock)
               /\ last' = Done("nextRound", 0, Admin, Null,
                               IF nx.err THEN "error" ELSE IF nx.final THEN "final" ELSE "ok")

\* the users who try to register
Entrants == 1..MaxEntrants

\* a started, unawaited generateFixtures() call: the participant ids its
\* synchronous part has read
Pending(ids) == [pc |-> "fixtures", ids |-> ids]

\* tournamentSchema.methods.addParticipant called by handler op for user u:
\* the call of generateFixtures() is not awaited, so the method saves and
\* returns while generation is pending
Register(op, n, u) ==
    \E r \in {addParticipant(tournament, u)} :
       LET starts == r.generate /\ ~FixturesRejected(r.doc)
       IN /\ starts => Len(inflight) < MaxPending
          /\ tournament' = IF r.err = "none" THEN preSave(r.doc, clock) ELSE tournament
          /\ inflight' = IF starts THEN Append(inflight, Pending(Ids(r.doc.participants)))
                         ELSE inflight
          /\ last' = Done(op, n, u, Null, IF r.err = "none" THEN "ok" ELSE "error")

AddParticipant(u) ==
    /\ Register("addParticipant", 0, u)
    /\ response' = <<>>
    /\ UNCHANGED <<matches, clock, leaderboard, payments>>

\* tournamentSchema.methods.removeParticipant
RemoveParticipant(u) ==
    \E r \in {removeParticipant(tournament, u)} :
       /\ tournament' = IF r.err = "none" THEN preSave(r.doc, clock) ELSE tournament
       /\ last' = Done("removeParticipant", 0, u, Null,
                       IF r.err = "none" THEN "ok" ELSE "error")
       /\ response' = <<>>
       /\ UNCHANGED <<leaderboard, payments>>
       /\ UNCHANGED <<matches, clock, inflight>>

\* the rest of a pending generateFixtures() call: the generator, insertMany
\* and a second save of the document addParticipant is saving; that save
\* writes the paths it changed (matches, status), or is refused as a
\* parallel save when the first save has not finished
FixturesContinue ==
    \E n \in 1..Len(inflight) :
       /\ inflight[n].pc = "fixtures"
       /\ \E shuffled \in Shuffles(inflight[n].ids),
             rnd \in Draws(tournament.format, Len(inflight[n].ids)),
             parallel \in BOOLEAN :
          \E ms \in {generateFixtures(tournament, shuffled, rnd)} :
             IF \E k \in 1..Len(ms) : ~Validates(ms[k])
             THEN /\ last' = Done("autoFixtures", 0, NoUser, Null, "error")
                  /\ UNCHANGED <<matches, tournament>>
             ELSE /\ matches' = matches \o ms
                  /\ IF parallel
                     THEN /\ last' = Done("autoFixtures", 0, NoUser, Null, "parallel_save")
                          /\ UNCHANGED tournament
                     ELSE /\ last' = Done("autoFixtures", 0, NoUser, Null, "ok")
                          /\ tournament' = [tournament EXCEPT
                                 !.matches = [k \in 1..Len(ms) |-> Len(matches) + k],
                                 !.status = preSave([tournament EXCEPT !.status = "upcoming"],
                                                    clock).status]
       /\ inflight' = RemoveAt(inflight, n)
       /\ response' = <<>>
       /\ UNCHANGED <<clock, leaderboard, payments>>

\* a request that has loaded the tournament and not yet called addParticipant
Registering(u, doc) == [pc |-> "add", user |-> u, doc |-> doc]

\* Tournament.findById of a handler that registers user u
RegisterLoad(u) ==
    /\ Len(inflight) < MaxRequests
    /\ inflight' = Append(inflight, Registering(u, tournament))
    /\ UNCHANGED <<matches, tournament, clock, last, response, leaderboard, payments>>

\* addParticipant on the loaded document and its save, which sends what the
\* call changed: the pushed participant as a $push, the status when the hook
\* moved it
RegisterStore(n) ==
    /\ inflight[n].pc = "add"
    /\ \E r \in {addParticipant(inflight[n].doc, inflight[n].user)} :
       LET saved == preSave(r.doc, clock)
           starts == r.generate /\ ~FixturesRejected(r.doc)
       IN /\ tournament' =
                IF r.err # "none" THEN tournament
                ELSE [tournament EXCEPT
                        !.participants = Append(@, r.doc.participants[Len(r.doc.participants)]),
                        !.status = IF saved.status # inflight[n].doc.status
                                   THEN saved.status ELSE @]
          /\ inflight' = IF starts
                         THEN Append(RemoveAt(inflight, n), Pending(Ids(r.doc.participants)))
                         ELSE RemoveAt(inflight, n)
          /\ last' = Done("addParticipant", 0, inflight[n].user, Null,
                          IF r.err = "none" THEN "ok" ELSE "error")
    /\ response' = <<>>
    /\ UNCHANGED <<matches, clock, leaderboard, payments>>

\* POST /join-tournament/:tournamentId: the schema has no registration path,
\* so reading tournament.registration.status throws and the route answers 500
JoinTournament(u) ==
    /\ last' = Done("joinTournament", 0, u, Null, "error")
    /\ response' = <<>>
    /\ UNCHANGED <<matches, tournament, clock, inflight, leaderboard, payments>>

\* PUT /api/tournaments/:id with { status: 'cancelled' } in the body
CancelTournament ==
    /\ tournament' = preSave([tournament EXCEPT !.status = "cancelled"], clock)
    /\ last' = Done("cancelTournament", 0, Admin, Null, "ok")
    /\ response' = <<>>
    /\ UNCHANGED <<matches, clock, inflight, leaderboard, payments>>

\* `lastMatch ? lastMatch.matchNumber + 1 : 1` of MatchController.createMatch
nextMatchNumber(coll) ==
    IF coll = <<>> THEN 1
    ELSE MaxOf({coll[k].matchNumber : k \in 1..Len(coll)}) + 1

\* a createMatch request that has read the last match number
Creating(matchNumber, p1, p2) ==
    [pc |-> "create", matchNumber |-> matchNumber, p1 |-> p1, p2 |-> p2]

\* MatchController.createMatch up to its Match.findOne
CreateMatchRead(p1, p2) ==
    /\ Len(inflight) < MaxRequests
    /\ inflight' = Append(inflight, Creating(nextMatchNumber(matches), p1, p2))
    /\ UNCHANGED <<matches, tournament, clock, last, response, leaderboard, payments>>

\* MatchController.createMatch from new Match() on: round defaults to
\* 'Group Stage' and the request names a valid scheduledTime
CreateMatchSave(n) ==
    /\ inflight[n].pc = "create"
    /\ Len(matches) < MaxMatches
    /\ \E m \in {[NewMatch(Label("Group Stage", 0, 0), inflight[n].matchNumber,
                           Slot(inflight[n].p1), Slot(inflight[n].p2), "scheduled", NoResult)
                    EXCEPT !.scheduledTime = [day |-> 0, minute |-> 0]]} :
          /\ matches' = IF Validates(m) THEN Append(matches, m) ELSE matches
          /\ last' = Done("createMatch", Len(matches) + 1, Admin, Null,
                          IF Validates(m) THEN "ok" ELSE "error")
    /\ inflight' = RemoveAt(inflight, n)
    /\ response' = <<>>
    /\ UNCHANGED <<tournament, clock, leaderboard, payments>>

\* ------------------------------------------------- Leaderboard.updatePlayerStats
\* the players with an entry in the stored global board
Ranked == {1, 2}

\* a stored entry of the global board with its tallies, before ranking
StoredEntry(player, wins, draws, losses) ==
    entryPreSave([NewEntry(player) EXCEPT !.wins = wins, !.draws = draws,
                                          !.losses = losses,
                                          !.points = wins * 3 + draws,
                                          !.totalMatches = wins + draws + losses,
                                          !.rank = minRank])

\* Leaderboard.updatePlayerStats(playerId, matchResult) called on its own
UpdatePlayerStats(playerId, matchResult) ==
    /\ \A i \in 1..Len(leaderboard) :
          leaderboard[i].player = playerId => leaderboard[i].totalMatches < MaxTotal
    /\ \E r \in {LeaderboardUpdatePlayerStats(leaderboard, playerId, matchResult)} :
          /\ leaderboard' = r.coll
          /\ last' = Done("updatePlayerStats", 0, playerId, Null,
                          IF r.err THEN "error" ELSE "ok")
    /\ response' = <<>>
    /\ UNCHANGED <<matches, tournament, clock, inflight, payments>>

\* an updatePlayerStats call between its steps: doc is the entry it read, idx
\* its place in the collection (0: none found), order what its find() of the
\* scope returned
StatsCall(step, playerId, matchResult, idx, doc, order) ==
    [pc |-> "stats", step |-> step, player |-> playerId, matchResult |-> matchResult,
     idx |-> idx, doc |-> doc, order |-> order]

\* the paths save() writes for a stored entry: the ones the call assigned a
\* different value to
Modified(stored, read, doc) ==
    [stored EXCEPT !.totalMatches = doc.totalMatches,
                   !.wins = IF doc.wins # read.wins THEN doc.wins ELSE @,
                   !.losses = IF doc.losses # read.losses THEN doc.losses ELSE @,
                   !.draws = IF doc.draws # read.draws THEN doc.draws ELSE @,
                   !.points = IF doc.points # read.points THEN doc.points ELSE @,
                   !.winRate = IF doc.winRate # read.winRate THEN doc.winRate ELSE @,
                   !.rankChange = IF doc.rankChange # read.rankChange
                                  THEN doc.rankChange ELSE @]

\* updatePlayerStats up to the answer of its findOne
StatsFindOne(playerId, matchResult) ==
    /\ Len(inflight) < MaxRequests
    /\ \A i \in 1..Len(leaderboard) :
          leaderboard[i].player = playerId =>
              leaderboard[i].wins + leaderboard[i].draws + leaderboard[i].losses < MaxRaced
    /\ LET found == {i \in 1..Len(leaderboard) : leaderboard[i].player = playerId}
           idx == IF found = {} THEN 0 ELSE CHOOSE i \in found : \A j \in found : i <= j
       IN inflight' = Append(inflight,
              StatsCall("save", playerId, matchResult, idx,
                        IF idx = 0 THEN NewEntry(playerId) ELSE leaderboard[idx], <<>>))
    /\ UNCHANGED <<matches, tournament, clock, last, response, leaderboard, payments>>

\* updateStatsForMatch up to the end of leaderboard.save()
StatsSave(n) ==
    /\ inflight[n].pc = "stats" /\ inflight[n].step = "save"
    /\ LET c == inflight[n]
           counted == [c.doc EXCEPT !.totalMatches = @ + 1]
           e == CASE c.matchResult = "win" ->
                         [counted EXCEPT !.wins = @ + 1, !.points = @ + 3]
                  [] c.matchResult = "loss" -> [counted EXCEPT !.losses = @ + 1]
                  [] c.matchResult = "draw" ->
                         [counted EXCEPT !.draws = @ + 1, !.points = @ + 1]
                  [] OTHER -> counted
       IN IF ~EntryValidates(e, c.idx = 0)
          THEN /\ inflight' = RemoveAt(inflight, n)
               /\ last' = Done("updatePlayerStats", 0, c.player, Null, "error")
               /\ UNCHANGED leaderboard
          ELSE /\ leaderboard' =
                     IF c.idx = 0 THEN Append(leaderboard, entryPreSave(e))
                     ELSE [leaderboard EXCEPT
                              ![c.idx] = Modified(@, c.doc, entryPreSave(e))]
               /\ inflight' = [inflight EXCEPT ![n].step = "find",
                                               ![n].doc = entryPreSave(e)]
               /\ UNCHANGED last
    /\ response' = <<>>
    /\ UNCHANGED <<matches, tournament, clock, payments>>

\* updateRanks up to the answer of its find().sort(): for every entry the
\* rank it has and the place the sort gave it
StatsRanksFind(n) ==
    /\ inflight[n].pc = "stats" /\ inflight[n].step = "find"
    /\ inflight' = [inflight EXCEPT
          ![n].step = "bulk",
          ![n].order = [i \in 1..Len(leaderboard) |->
                           [previousRank |-> leaderboard[i].rank,
                            rank |-> updateRanks(leaderboard)[i].rank]]]
    /\ UNCHANGED <<matches, tournament, clock, last, response, leaderboard, payments>>

\* updateRanks from its bulkWrite on, and the return of the call
StatsBulkWrite(n) ==
    /\ inflight[n].pc = "stats" /\ inflight[n].step = "bulk"
    /\ leaderboard' = [i \in 1..Len(leaderboard) |->
          IF i <= Len(inflight[n].order)
          THEN [leaderboard[i] EXCEPT !.previousRank = inflight[n].order[i].previousRank,
                                      !.rank = inflight[n].order[i].rank]
          ELSE leaderboard[i]]
    /\ last' = Done("updatePlayerStats", 0, inflight[n].player, Null, "ok")
    /\ inflight' = RemoveAt(inflight, n)
    /\ response' = <<>>
    /\ UNCHANGED <<matches, tournament, clock, payments>>

\* --------------------------------------------------------------- scheduleMatches
\* fixtureSettings.daysOfWeek values a tournament may carry: none, the default
\* [5, 6], two weekdays, and a number that is no weekday
DaysOfWeekChoices == {{}, {5, 6}, {1, 3}, {7}}

\* fixtureSettings.matchesPerDay values a tournament may carry
MatchesPerDayChoices == {0, 1, matchesPerDay}

\* scheduleMatches between two steps: `at` is the loop it stands in, date the
\* days from tournamentStart to currentDate, weekday its getDay(), index
\* currentMatchIndex, today matchesToday
Scheduling(at, date, weekday, index, today, settings) ==
    [pc |-> "schedule", at |-> at, date |-> date, weekday |-> weekday,
     index |-> index, today |-> today, settings |-> settings]

\* setDate(getDate() + 1): the day count is kept up to MaxDay
NextDay(c) ==
    [c EXCEPT !.date = Min(c.date + 1, MaxDay), !.weekday = (c.weekday + 1) % 7]

\* generateFixtures(tournament) up to the first test of getNextValidDay: the
\* fixtures of the format, sorted by round, and currentDate at tournamentStart
ScheduleStart ==
    /\ inflight = <<>> /\ matches = <<>>
    /\ \E shuffled \in Shuffles(Ids(tournament.participants)),
          rnd \in Draws(tournament.format, Len(tournament.participants)),
          daysOfWeek \in DaysOfWeekChoices,
          perDay \in MatchesPerDayChoices,
          startDay \in 0..6 :
          /\ matches' = SortByRound(
                 IF tournament.format = "knockout"
                 THEN generateKnockoutFixtures(shuffled, rnd)
                 ELSE generateLeagueFixtures(shuffled))
          /\ inflight' = <<Scheduling("search", 0, startDay, 0, 0,
                                      [daysOfWeek |-> daysOfWeek, matchesPerDay |-> perDay,
                                       startDay |-> startDay])>>
    /\ last' = Done("scheduleMatches", 0, Organizer, Null, "running")
    /\ response' = <<>>
    /\ UNCHANGED <<tournament, clock, leaderboard, payments>>

\* one test of `while (!daysOfWeek.includes(day))` in getNextValidDay
ScheduleSearch ==
    /\ inflight # <<>> /\ inflight[1].pc = "schedule" /\ inflight[1].at = "search"
    /\ inflight' = IF inflight[1].weekday \in inflight[1].settings.daysOfWeek
                   THEN <<[inflight[1] EXCEPT !.at = "day"]>>
                   ELSE <<NextDay(inflight[1])>>
    /\ UNCHANGED <<matches, tournament, clock, last, response, leaderboard, payments>>

\* one test of `while (currentMatchIndex < matches.length)`
ScheduleDay ==
    /\ inflight # <<>> /\ inflight[1].pc = "schedule" /\ inflight[1].at = "day"
    /\ IF inflight[1].index < Len(matches)
       THEN /\ inflight' = <<[inflight[1] EXCEPT !.at = "fill", !.today = 0]>>
            /\ UNCHANGED last
       ELSE /\ inflight' = <<[inflight[1] EXCEPT !.at = "done"]>>
            /\ last' = Done("scheduleMatches", 0, Organizer, Null, "ok")
    /\ UNCHANGED <<matches, tournament, clock, response, leaderboard, payments>>

\* one test of the loop that fills a day, with its body or, when it ends, the
\* move to the next day
ScheduleFill ==
    /\ inflight # <<>> /\ inflight[1].pc = "schedule" /\ inflight[1].at = "fill"
    /\ LET c == inflight[1]
       IN IF c.today < c.settings.matchesPerDay /\ c.index < Len(matches)
          THEN /\ matches' = [matches EXCEPT ![c.index + 1].scheduledTime =
                                 [day |-> c.date,
                                  minute |-> c.today * (matchDuration + breakBetweenMatches)]]
               /\ inflight' = <<[c EXCEPT !.today = @ + 1, !.index = @ + 1]>>
          ELSE /\ inflight' = <<[NextDay(c) EXCEPT !.at = "search"]>>
               /\ UNCHANGED matches
    /\ UNCHANGED <<tournament, clock, last, response, leaderboard, payments>>

\* ----------------------------------------------------------------- payments
\* a stored entry-fee payment of user u for the tournament
Payment(u) == [user |-> u, type |-> "entry_fee", tournament |-> TRUE, status |-> "pending"]

\* paymentSchema.methods.markAsCompleted
markAsCompleted(p) == [p EXCEPT !.status = "completed"]

\* paymentSchema.methods.markAsFailed
markAsFailed(p) == [p EXCEPT !.status = "failed"]

\* what the gateway reports: 0 is success
ResultCodes == {0, 1}

\* MpesaService.handleCallback for the payment at index n
HandleCallback(n, resultCode) ==
    /\ payments' = [payments EXCEPT ![n] = IF resultCode = 0 THEN markAsCompleted(@)
                                           ELSE markAsFailed(@)]
    /\ last' = Done("handleCallback", n, payments[n].user, Null,
                    IF resultCode = 0 THEN "ok" ELSE "failed")
    /\ response' = <<>>
    /\ UNCHANGED <<matches, tournament, clock, inflight, leaderboard>>

\* PaymentController.checkPaymentStatus, resultCode being the gateway's answer
CheckPaymentStatus(n, resultCode) ==
    /\ response' = <<>>
    /\ UNCHANGED <<matches, clock, leaderboard>>
    /\ IF payments[n].status = "completed"
       THEN /\ last' = Done("checkPaymentStatus", n, payments[n].user, Null, "completed")
            /\ UNCHANGED <<payments, tournament, inflight>>
       ELSE IF resultCode = 0
       THEN /\ payments' = [payments EXCEPT ![n] = markAsCompleted(@)]
            /\ IF payments[n].type = "entry_fee" /\ payments[n].tournament
               THEN Register("checkPaymentStatus", n, payments[n].user)
               ELSE /\ last' = Done("checkPaymentStatus", n, payments[n].user, Null, "ok")
                    /\ UNCHANGED <<tournament, inflight>>
       ELSE /\ last' = Done("checkPaymentStatus", n, payments[n].user, Null, "pending")
            /\ UNCHANGED <<payments, tournament, inflight>>

\* POST /api/admin/payments/:id/process
ProcessPayment(n, action) ==
    /\ response' = <<>>
    /\ UNCHANGED <<matches, clock, leaderboard>>
    /\ IF action = "approve"
       THEN /\ payments' = [payments EXCEPT ![n] = markAsCompleted(@)]
            /\ IF payments[n].type = "entry_fee" /\ payments[n].tournament
               THEN Register("processPayment", n, payments[n].user)
               ELSE /\ last' = Done("processPayment", n, payments[n].user, Null, "ok")
                    /\ UNCHANGED <<tournament, inflight>>
       ELSE /\ payments' = [payments EXCEPT ![n] = markAsFailed(@)]
            /\ last' = Done("processPayment", n, payments[n].user, Null, "rejected")
            /\ UNCHANGED <<tournament, inflight>>

\* ------------------------------------------------------------ specification
InitWith(format, ps, clk) ==
    /\ matches = <<>>
    /\ tournament = NewTournament(format, ps)
    /\ clock = clk
    /\ last = Done("init", 0, NoUser, Null, "ok")
    /\ inflight = <<>>
    /\ response = <<>>
    /\ leaderboard = <<>>
    /\ payments = <<>>

SubmitSteps ==
    \/ \E i \in 1..Len(matches), c \in Callers, s \in Scores : RouteSubmitScore(i, c, s)
    \/ \E i \in 1..Len(matches), c \in Callers, s \in Scores : CtlSubmitScore(i, c, s)
    \/ \E i \in 1..Len(matches), p \in {"player1", "player2", "other"}, s \in Scores :
          MatchSubmitScore(i, p, s)

VerifySteps ==
    \/ \E i \in 1..Len(matches), a \in AdminIds : RouteVerify(i, a)
    \/ \E i \in 1..Len(matches), a \in AdminIds : CtlVerify(i, a)

\* one league match between players 1 and 2; player 3 is an outsider
Init == InitWith("league", <<1, 2>>, 0)

Next == GenerateFixtures \/ SubmitSteps \/ VerifySteps

Spec == Init /\ [][Next]_vars

TypeOK == clock \in 0..MaxClock

\* a running league of three players: two matches and their standings
InitLeague == InitWith("league", <<1, 2, 3>>, 1)

\* the two players of a scheduled match submit their scores
PlayersSubmit ==
    \E i \in 1..Len(matches), s \in Scores :
        /\ matches[i].status = "scheduled"
        /\ \E c \in {matches[i].player1.user, matches[i].player2.user} :
              CtlSubmitScore(i, c, s)

NextLeague ==
    \/ GenerateFixtures
    \/ PlayersSubmit
    \/ \E i \in 1..Len(matches), a \in AdminIds : CtlVerify(i, a)
    \/ UpdateLeaderboard

SpecLeague == InitLeague /\ [][NextLeague]_vars

\* ------------------------------------------------- two requests in flight
\* what Document.prototype.save writes: the paths the request changed on the
\* copy it loaded, over whatever is stored by then
DeltaSave(stored, loaded, local) ==
    LET pick(s, l, n) == IF n # l THEN n ELSE s
    IN [stored EXCEPT
          !.player1.score = pick(@, loaded.player1.score, local.player1.score),
          !.player1.confirmed = pick(@, loaded.player1.confirmed, local.player1.confirmed),
          !.player2.score = pick(@, loaded.player2.score, local.player2.score),
          !.player2.confirmed = pick(@, loaded.player2.confirmed, local.player2.confirmed),
          !.status = pick(@, loaded.status, local.status),
          !.result.winner = pick(@, loaded.result.winner, local.result.winner),
          !.result.loser = pick(@, loaded.result.loser, local.result.loser),
          !.result.isDraw = pick(@, loaded.result.isDraw, local.result.isDraw),
          !.result.confirmedBy = pick(@, loaded.result.confirmedBy, local.result.confirmedBy)]

Request(via, score) == [pc |-> "idle", via |-> via, score |-> score, doc |-> NoSlot]

\* a scheduled match between players 1 and 2 and one submit request of each
InitRace ==
    /\ matches = scheduleMatches(<<NewMatch(Label("Round", 1, 0), 1, Slot(1), Slot(2),
                                            "scheduled", NoResult)>>)
    /\ tournament = [NewTournament("league", <<1, 2>>) EXCEPT !.matches = <<1>>]
    /\ clock = 0
    /\ last = Done("init", 0, NoUser, Null, "ok")
    /\ inflight \in [{1, 2} -> {Request(v, s) : v \in {"ctl", "match"}, s \in Scores}]
    /\ response = <<>>
    /\ leaderboard = <<>>
    /\ payments = <<>>

\* await Match.findById(...): the request gets its own copy of the document
Load(c) ==
    /\ inflight[c].pc = "idle"
    /\ inflight' = [inflight EXCEPT ![c].pc = "loaded", ![c].doc = matches[1]]
    /\ UNCHANGED <<matches, tournament, clock, last, response, leaderboard, payments>>

\* the rest of the handler up to its save, run on the loaded copy
Store(c) ==
    LET rq == inflight[c]
        field == IF rq.doc.player1.user = c THEN "player1" ELSE "player2"
        set == IF field = "player1"
               THEN [rq.doc EXCEPT !.player1.score = rq.score, !.player1.confirmed = TRUE]
               ELSE [rq.doc EXCEPT !.player2.score = rq.score, !.player2.confirmed = TRUE]
        out == IF rq.via = "ctl" THEN reconcile(set, c)
               ELSE submitScore(rq.doc, field, rq.score)
        verified == out.doc.status = "completed"
    IN /\ rq.pc = "loaded"
       /\ inflight' = [inflight EXCEPT ![c].pc = "done"]
       /\ IF out.err # "none"
          THEN /\ last' = Done(rq.via, 1, c, rq.score, "error")
               /\ UNCHANGED matches
          ELSE /\ matches' = [matches EXCEPT ![1] = DeltaSave(@, rq.doc, out.doc)]
               /\ last' = Done(rq.via, 1, c, rq.score,
                               IF rq.via = "ctl" /\ verified THEN "error" ELSE "ok")
       /\ UNCHANGED <<tournament, clock>>
       /\ response' = <<>>
       /\ UNCHANGED <<leaderboard, payments>>

NextRace == \E c \in {1, 2} : Load(c) \/ Store(c)

SpecRace == InitRace /\ [][NextRace]_vars

\* ------------------------------------------------ knockout bracket generation
BracketSizes == {2, 3, 5, 7, 9, 16}

InitBracket ==
    \E n \in BracketSizes : InitWith("knockout", [i \in 1..n |-> i], 0)

\* generateKnockoutFixtures applied to a shuffled list of the participants' ids
KnockoutFixtures ==
    /\ last.op = "init"
    /\ \E shuffled \in Shuffles(Ids(tournament.participants)),
          rnd \in Draws(tournament.format, Len(tournament.participants)) :
          matches' = generateKnockoutFixtures(shuffled, rnd)
    /\ last' = Done("knockoutFixtures", 0, Organizer, Null, "ok")
    /\ UNCHANGED <<tournament, clock, inflight>>
    /\ response' = <<>>
    /\ UNCHANGED <<leaderboard, payments>>

\* TournamentController.generateMatches applied to the participants
ControllerMatches ==
    /\ last.op = "init"
    /\ \E shuffled \in Shuffles(Ids(tournament.participants)) :
          matches' = generateMatches(tournament.format, shuffled)
    /\ last' = Done("generateMatches", 0, Organizer, Null, "ok")
    /\ UNCHANGED <<tournament, clock, inflight>>
    /\ response' = <<>>
    /\ UNCHANGED <<leaderboard, payments>>

NextBracket == KnockoutFixtures \/ ControllerMatches

SpecBracket == InitBracket /\ [][NextBracket]_vars

\* ------------------------------------------------------ a knockout tournament
InitKnockout ==
    \E ps \in {<<1, 2>>, <<1, 2, 3>>}, clk \in {0, 1} : InitWith("knockout", ps, clk)

NextKnockout ==
    \/ Tick
    \/ GenerateFixtures
    \/ PlayersSubmit
    \/ \E i \in 1..Len(matches), a \in AdminIds : CtlVerify(i, a)
    \/ NextKnockoutRound

SpecKnockout == InitKnockout /\ [][NextKnockout]_vars

\* --------------------------------------------------- reading the standings
NextStandings ==
    \/ GenerateFixtures
    \/ PlayersSubmit
    \/ \E i \in 1..Len(matches), a \in AdminIds : RouteVerify(i, a)
    \/ UpdateLeaderboard
    \/ GetLeaderboard
    \/ GetStandings

SpecStandings == InitLeague /\ [][NextStandings]_vars

\* -------------------------------------------------- league fixture generation
InitRoundRobin ==
    \E n \in 2..MaxLeague : InitWith("league", [i \in 1..n |-> i], 0)

\* generateLeagueFixtures applied to the participants' ids in any shuffled order
LeagueFixtures ==
    /\ last.op = "init"
    /\ \E q \in Orderings(Len(tournament.participants)) :
          matches' = generateLeagueFixtures(
                        [i \in 1..Len(q) |-> tournament.participants[q[i]].player])
    /\ last' = Done("leagueFixtures", 0, Organizer, Null, "ok")
    /\ UNCHANGED <<tournament, clock, inflight>>
    /\ response' = <<>>
    /\ UNCHANGED <<leaderboard, payments>>

NextRoundRobin == LeagueFixtures

SpecRoundRobin == InitRoundRobin /\ [][NextRoundRobin]_vars

\* ------------------------------------------------------------- registration
\* an empty knockout tournament open for registration
InitRegistration ==
    \E c \in minCapacity..MaxCapacity :
       /\ matches = <<>>
       /\ tournament = TournamentWith("knockout", <<>>, c, "upcoming")
       /\ clock = 0
       /\ last = Done("init", 0, NoUser, Null, "ok")
       /\ inflight = <<>>
       /\ response = <<>>
       /\ leaderboard = <<>>
       /\ payments = <<>>

NextRegistration ==
    \/ \E u \in Entrants : AddParticipant(u)
    \/ FixturesContinue

SpecRegistration == InitRegistration /\ [][NextRegistration]_vars

\* ------------------------------------------------------- global leaderboard
\* one league match, verified through either MatchController.verifyResult
NextLeaderboard ==
    \/ Next
    \/ \E i \in 1..Len(matches), a \in AdminIds : CtlVerifyByResult(i, a)

SpecLeaderboard == Init /\ [][NextLeaderboard]_vars

\* ------------------------------------------------- concurrent registrations
\* an empty league open for registration, with room for two or three
InitCapacity ==
    \E c \in minCapacity..(minCapacity + 1) :
       /\ matches = <<>>
       /\ tournament = TournamentWith("league", <<>>, c, "upcoming")
       /\ clock = 0
       /\ last = Done("init", 0, NoUser, Null, "ok")
       /\ inflight = <<>>
       /\ response = <<>>
       /\ leaderboard = <<>>
       /\ payments = <<>>

NextCapacity ==
    \/ \E u \in Players : RegisterLoad(u)
    \/ \E n \in 1..Len(inflight) : RegisterStore(n)
    \/ \E u \in Players : JoinTournament(u)

SpecCapacity == InitCapacity /\ [][NextCapacity]_vars

\* ------------------------------------------------------ the tournament status
\* a full knockout tournament of two before its start
InitStatus ==
    /\ matches = <<>>
    /\ tournament = TournamentWith("knockout", <<1, 2>>, minCapacity, "upcoming")
    /\ clock = 0
    /\ last = Done("init", 0, NoUser, Null, "ok")
    /\ inflight = <<>>
    /\ response = <<>>
    /\ leaderboard = <<>>
    /\ payments = <<>>

NextStatus ==
    \/ Tick
    \/ CancelTournament
    \/ GenerateFixtures
    \/ NextKnockoutRound
    \/ \E u \in Players : AddParticipant(u)
    \/ \E u \in Players : RemoveParticipant(u)

SpecStatus == InitStatus /\ [][NextStatus]_vars

\* ------------------------------------------------ repeated fixture generation
\* a knockout tournament or a league of two, before its start
InitTwice == \E format \in {"knockout", "league"} : InitWith(format, <<1, 2>>, 0)

NextTwice ==
    \/ GenerateFixtures
    \/ RegenerateFixtures
    \/ AdminGenerateFixtures

SpecTwice == InitTwice /\ [][NextTwice]_vars

\* ------------------------------------------------------- entry-fee payments
\* a league with room for every payer and one pending entry-fee payment each
InitPayments ==
    /\ matches = <<>>
    /\ tournament = TournamentWith("league", <<>>, MaxPayments, "upcoming")
    /\ clock = 0
    /\ last = Done("init", 0, NoUser, Null, "ok")
    /\ inflight = <<>>
    /\ response = <<>>
    /\ leaderboard = <<>>
    /\ payments = [n \in 1..MaxPayments |-> Payment(n)]

Callbacks == \E n \in 1..Len(payments), c \in ResultCodes : HandleCallback(n, c)

Polls == \E n \in 1..Len(payments), c \in ResultCodes : CheckPaymentStatus(n, c)

Approvals == \E n \in 1..Len(payments), a \in {"approve", "reject"} : ProcessPayment(n, a)

NextPayments == Callbacks \/ Polls \/ Approvals

SpecPayments == InitPayments /\ [][NextPayments]_vars

\* the gateway keeps calling back and the clients keep polling; the admin
\* is under no obligation to approve by hand
SpecPaymentsFair == SpecPayments /\ WF_vars(Callbacks) /\ WF_vars(Polls)

\* ------------------------------------------------- who may verify a match
\* the senders of a verify request: nobody logged in, a player, the admin
Requesters == {NoUser} \cup Players \cup AdminIds

NextAccess ==
    \/ GenerateFixtures
    \/ SubmitSteps
    \/ \E i \in 1..Len(matches), c \in Requesters, mw \in Middlewares : VerifyRequest(i, c, mw)
    \/ \E i \in 1..Len(matches), c \in Requesters : AdminRouteVerify(i, c)

SpecAccess == Init /\ [][NextAccess]_vars

\* ----------------------------------------------------------- match numbering
NextNumbering ==
    \/ GenerateFixtures
    \/ RegenerateFixtures
    \/ AdminGenerateFixtures
    \/ NextKnockoutRound
    \/ \E p1, p2 \in {1, 2} : p1 # p2 /\ CreateMatchRead(p1, p2)
    \/ \E n \in 1..Len(inflight) : CreateMatchSave(n)

SpecNumbering == InitTwice /\ [][NextNumbering]_vars

\* ------------------------------------------------------ ranking the global board
\* a global board holding one ranked entry for each player of Ranked
InitRanking ==
    /\ matches = <<>>
    /\ tournament = NewTournament("league", <<1, 2>>)
    /\ clock = 0
    /\ last = Done("init", 0, NoUser, Null, "ok")
    /\ inflight = <<>>
    /\ response = <<>>
    /\ payments = <<>>
    /\ \E tally \in [Ranked -> [wins : 0..MaxTally, draws : 0..MaxTally, losses : 0..MaxTally]] :
          leaderboard = updateRanks(updateRanks(
              [i \in 1..Cardinality(Ranked) |->
                  StoredEntry(i, tally[i].wins, tally[i].draws, tally[i].losses)]))

NextRanking ==
    \E u \in Players, matchResult \in {"win", "loss", "draw"} : UpdatePlayerStats(u, matchResult)

SpecRanking == InitRanking /\ [][NextRanking]_vars

\* --------------------------------------------- concurrent updates of the board
NextRerank ==
    \/ \E u \in Players, matchResult \in {"win", "loss", "draw"} : StatsFindOne(u, matchResult)
    \/ \E n \in 1..Len(inflight) : StatsSave(n)
    \/ \E n \in 1..Len(inflight) : StatsRanksFind(n)
    \/ \E n \in 1..Len(inflight) : StatsBulkWrite(n)

\* the board of InitRanking before any match
InitRerank ==
    /\ InitRanking
    /\ \A i \in 1..Len(leaderboard) : leaderboard[i].totalMatches = 0

SpecRerank == InitRerank /\ [][NextRerank]_vars

\* ------------------------------------------ a knockout round played to its end
\* a knockout tournament of four whose first round the admin trigger creates
InitProgression == InitWith("knockout", <<1, 2, 3, 4>>, 0)

NextProgression ==
    \/ Len(matches) = 0 /\ AdminGenerateFixtures
    \/ PlayersSubmit
    \/ \E i \in 1..Len(matches), a \in AdminIds : RouteVerify(i, a)
    \/ NextKnockoutRound

SpecProgression == InitProgression /\ [][NextProgression]_vars

\* ------------------------------------------------------- scheduling the fixtures
\* a knockout tournament of four or a league of three, before its fixtures
InitScheduling ==
    \E f \in {<<"knockout", 4>>, <<"league", 3>>} :
        InitWith(f[1], [i \in 1..f[2] |-> i], 0)

NextScheduling == ScheduleStart \/ ScheduleSearch \/ ScheduleDay \/ ScheduleFill

SpecScheduling == InitScheduling /\ [][NextScheduling]_vars

\* the loops of scheduleMatches run on while they can
SpecSchedulingFair ==
    SpecScheduling /\ WF_vars(ScheduleSearch \/ ScheduleDay \/ ScheduleFill)

\* ------------------------------------------- a match and the players' statistics
\* one league match between players 1 and 2, who both have an entry without
\* any match on the global board
InitStats ==
    /\ matches = <<>>
    /\ tournament = NewTournament("league", <<1, 2>>)
    /\ clock = 0
    /\ last = Done("init", 0, NoUser, Null, "ok")
    /\ inflight = <<>>
    /\ response = <<>>
    /\ payments = <<>>
    /\ leaderboard = updateRanks(updateRanks(
           [i \in 1..Cardinality(Ranked) |-> StoredEntry(i, 0, 0, 0)]))

\* no entry of the board has reached MaxCounted matches
StatsBounded == \A k \in 1..Len(leaderboard) : leaderboard[k].totalMatches < MaxCounted

NextStats ==
    \/ GenerateFixtures
    \/ SubmitSteps
    \/ StatsBounded /\ VerifySteps
    \/ StatsBounded /\ \E i \in 1..Len(matches), a \in AdminIds : CtlVerifyByResult(i, a)

SpecStats == InitStats /\ [][NextStats]_vars

\* --------------------------------------------- a resubmission racing a submit
\* the match of InitRace after player 1 has submitted a score: player 1 is
\* about to submit again and player 2 for the first time
InitResubmit ==
    /\ \E s \in Scores :
          matches =
              <<submitScore(scheduleMatches(<<NewMatch(Label("Round", 1, 0), 1, Slot(1),
                                                       Slot(2), "scheduled", NoResult)>>)[1],
                            "player1", s).doc>>
    /\ tournament = [NewTournament("league", <<1, 2>>) EXCEPT !.matches = <<1>>]
    /\ clock = 0
    /\ last = Done("matchSubmit", 1, 1, Null, "ok")
    /\ inflight \in [{1, 2} -> {Request(v, s) : v \in {"ctl", "match"}, s \in Scores}]
    /\ response = <<>>
    /\ leaderboard = <<>>
    /\ payments = <<>>

SpecResubmit == InitResubmit /\ [][NextRace]_vars

\* -------------------------------------------------------------- properties
SubmitOps == {"routeSubmit", "ctlSubmit", "matchSubmit"}

RequestSubmitOps == {"routeSubmit", "ctlSubmit"}

VerifyOps == {"routeVerify", "ctlVerify"}

\* the step is the handler call that `last` describes, on match i
Called(ops, i) == clock' = clock /\ last'.op \in ops /\ last'.m = i

BothConfirmed(m) == m.player1.confirmed /\ m.player2.confirmed

\* C1: a submitScore call on a not yet completed match of two players that
\* leaves both slots confirmed with equal scores ends with the match
\* completed as a draw and with no confirmer recorded.
C1_AutoVerifiedDrawHasNoConfirmer ==
    [][\A i \in 1..Len(matches) :
         (/\ Called(SubmitOps, i)
          /\ ~PlayersMissing(matches[i])
          /\ matches[i].status # "completed"
          /\ matches'[i] # matches[i]
          /\ BothConfirmed(matches'[i])
          /\ matches'[i].player1.score = matches'[i].player2.score)
         => (/\ matches'[i].status = "completed"
             /\ matches'[i].result.isDraw
             /\ matches'[i].result.confirmedBy = NoUser)]_vars

\* C3: a submitScore call that leaves both slots confirmed with different
\* scores makes the match disputed, and a disputed match never carries a
\* winner or a loser.
C3_DisputedHasNoWinner ==
    /\ [](\A i \in 1..Len(matches) :
            matches[i].status = "disputed" =>
                matches[i].result.winner = NoUser /\ matches[i].result.loser = NoUser)
    /\ [][\A i \in 1..Len(matches) :
            (/\ Called(SubmitOps, i)
             /\ matches'[i] # matches[i]
             /\ BothConfirmed(matches'[i])
             /\ matches'[i].player1.score # matches'[i].player2.score)
            => matches'[i].status = "disputed"]_vars

\* what verifyResult must leave on a match whose scores are s1 and s2
VerifiedAs(m, s1, s2, confirmer) ==
    /\ m.status = "completed"
    /\ m.result.confirmedBy = confirmer
    /\ s1 > s2 => /\ m.result.winner = m.player1.user
                  /\ m.result.loser = m.player2.user
                  /\ ~m.result.isDraw
    /\ s2 > s1 => /\ m.result.winner = m.player2.user
                  /\ m.result.loser = m.player1.user
                  /\ ~m.result.isDraw
    /\ s1 = s2 => m.result.isDraw

C6_CompletedIsTerminal ==
    [][\A i \in 1..Len(matches) :
         matches[i].status = "completed" =>
            /\ matches'[i].status = "completed"
            /\ matches'[i].player1.score = matches[i].player1.score
            /\ matches'[i].player2.score = matches[i].player2.score
            /\ matches'[i].result.winner = matches[i].result.winner
            /\ matches'[i].result.loser = matches[i].result.loser
            /\ matches'[i].result.isDraw = matches[i].result.isDraw
            /\ Called(SubmitOps, i) =>
                  last'.resp # "ok" /\ matches'[i] = matches[i]]_vars

\* C7: a submit-score request on an open match of two players records the
\* score and the confirmation flag on the caller's own slot and leaves the
\* other slot alone when the caller is one of the two players, and is
\* rejected as forbidden without any change when the caller is neither.
C7_SubmitRecordsOwnSlot ==
    [][\A i \in 1..Len(matches) :
         (/\ Called(RequestSubmitOps, i)
          /\ ~PlayersMissing(matches[i])
          /\ matches[i].status # "completed")
         => IF last'.caller = matches[i].player1.user
            THEN /\ matches'[i].player1.score = last'.score
                 /\ matches'[i].player1.confirmed
                 /\ matches'[i].player2 = matches[i].player2
            ELSE IF last'.caller = matches[i].player2.user
            THEN /\ matches'[i].player2.score = last'.score
                 /\ matches'[i].player2.confirmed
                 /\ matches'[i].player1 = matches[i].player1
            ELSE last'.resp = "forbidden" /\ matches'[i] = matches[i]]_vars

C2_ConcurrentSubmitsComplete ==
    (/\ DOMAIN inflight = {1, 2}
     /\ inflight[1].pc = "done" /\ inflight[2].pc = "done"
     /\ inflight[1].score = inflight[2].score)
    => /\ matches[1].status = "completed"
       /\ matches[1].player1.score = inflight[1].score
       /\ matches[1].player2.score = inflight[2].score
       /\ matches[1].result.isDraw
       /\ matches[1].result.winner = NoUser

\* the matches of the first round of a generated bracket
FirstRound ==
    IF last.op = "generateMatches" THEN matches
    ELSE OfRound(matches, getRoundName(1, Len(tournament.participants)))

\* the number of first-round slots holding player u
Appearances(u) ==
    Cardinality({k \in 1..Len(FirstRound) : FirstRound[k].player1.user = u})
    + Cardinality({k \in 1..Len(FirstRound) :
                      FirstRound[k].player2.present /\ FirstRound[k].player2.user = u})

\* C9: in a generated knockout bracket of 2, 3, 5, 7, 9 or 16 participants every
\* first-round match holds two different participants, no participant is in
\* more than one first-round match, and at most one participant (the bye) is
\* in none.
C9_FirstRoundCoversParticipants ==
    last.op \in {"knockoutFixtures", "generateMatches"} =>
        LET ids == {tournament.participants[i].player : i \in 1..Len(tournament.participants)}
        IN /\ \A k \in 1..Len(FirstRound) :
                /\ FirstRound[k].player1.present /\ FirstRound[k].player2.present
                /\ FirstRound[k].player1.user \in ids
                /\ FirstRound[k].player2.user \in ids
                /\ FirstRound[k].player1.user # FirstRound[k].player2.user
           /\ \A u \in ids : Appearances(u) <= 1
           /\ Cardinality({u \in ids : Appearances(u) = 0}) <= 1

\* a bracket of nine: four first-round matches and one player with the bye
C9_Witness ==
    /\ last.op = "knockoutFixtures"
    /\ Len(tournament.participants) = 9
    /\ Len(FirstRound) = 4
    /\ \E u \in 1..9 : Appearances(u) = 0

Meetings(u, v) ==
    Cardinality({k \in 1..Len(matches) :
        \/ matches[k].player1.user = u /\ matches[k].player2.user = v
        \/ matches[k].player1.user = v /\ matches[k].player2.user = u})

\* C11: league generation for N participants yields N(N-1)/2 matches, every
\* pair of different participants meets exactly once and nobody meets
\* themselves.
C11_LeagueIsRoundRobin ==
    last.op = "leagueFixtures" =>
        LET n == Len(tournament.participants)
        IN /\ Len(matches) = (n * (n - 1)) \div 2
           /\ \A u, v \in 1..n : Meetings(u, v) = IF u = v THEN 0 ELSE 1

GoalDifference(row) == row.stats.goalsFor - row.stats.goalsAgainst

\* rows level on points and goal difference stand in descending goals-for order
GoalsForBreaksTies(rows) ==
    \A i, j \in 1..Len(rows) :
        (/\ i < j
         /\ rows[i].stats.points = rows[j].stats.points
         /\ GoalDifference(rows[i]) = GoalDifference(rows[j]))
        => rows[i].stats.goalsFor >= rows[j].stats.goalsFor

SemiFinals == OfRound(matches, getRoundName(1, 4))

\* C13: in a knockout tournament of capacity C automatic fixture generation is
\* started by the addParticipant call that brings the registered count to C and
\* by no earlier call, and with C = 4 the 4th call leaves generation under way
\* or a first round of exactly 2 matches labelled Semi-Finals.
C13_FixturesAtCapacity ==
    LET C == tournament.settings.capacity
    IN /\ \A k \in 1..Len(inflight) :
            inflight[k].pc = "fixtures" => Len(inflight[k].ids) = C
       /\ (last.op = "addParticipant" /\ last.resp = "ok"
             /\ participantCount(tournament) = C)
             => \/ inflight # <<>>
                \/ /\ matches # <<>>
                   /\ C = 4 => Len(SemiFinals) = 2 /\ Len(SemiFinals) * 2 = Len(matches) + 1

\* the verify handlers that update the players' statistics
StatsOps == {"ctlVerify", "ctlVerifyByResult"}

HasEntry(coll, u) == \E k \in 1..Len(coll) : coll[k].player = u

\* the global leaderboard entry of player u, a fresh one when there is none
EntryOf(coll, u) ==
    IF HasEntry(coll, u) THEN coll[CHOOSE k \in 1..Len(coll) : coll[k].player = u]
    ELSE NewEntry(u)

\* the step adds the given counts to the entry of player u and leaves its
\* winRate at wins / totalMatches x 100
Gains(u, wins, losses, draws, points) ==
    LET old == EntryOf(leaderboard, u)
        new == EntryOf(leaderboard', u)
    IN /\ HasEntry(leaderboard', u)
       /\ new.totalMatches = old.totalMatches + 1
       /\ new.wins = old.wins + wins
       /\ new.losses = old.losses + losses
       /\ new.draws = old.draws + draws
       /\ new.points = old.points + points
       /\ new.winRate.num * new.totalMatches = new.wins * 100 * new.winRate.den

\* C14: a controller verify call that finalizes a match with a winner adds 1
\* match, 1 win and 3 points to the winner's global leaderboard entry and 1
\* match and 1 loss to the loser's; for a draw each player gains 1 match, 1
\* draw and 1 point; winRate is then wins / totalMatches x 100.
C14_LeaderboardGains ==
    [][\A i \in 1..Len(matches) :
         (/\ Called(StatsOps, i)
          /\ matches[i].status # "completed"
          /\ matches'[i].status = "completed")
         => IF matches'[i].result.isDraw
            THEN /\ Gains(matches'[i].player1.user, 0, 0, 1, 1)
                 /\ Gains(matches'[i].player2.user, 0, 0, 1, 1)
            ELSE /\ Gains(matches'[i].result.winner, 1, 0, 0, 3)
                 /\ Gains(matches'[i].result.loser, 0, 1, 0, 0)]_vars

\* C15: whatever join, addParticipant and removeParticipant calls have run, the
\* participants list holds at most settings.capacity entries.
C15_CapacityRespected == Len(tournament.participants) <= tournament.settings.capacity

\* a status change against the order draft, upcoming, active, completed
Backward(from, to) ==
    \/ from \in {"completed", "cancelled"} /\ to \in {"upcoming", "active"}
    \/ from = "active" /\ to = "upcoming"

\* C16: no save, fixture generation, knockout progression or participant
\* change takes a completed or cancelled tournament back to upcoming or active,
\* or an active tournament back to upcoming.
C16_StatusMovesForward ==
    [][~Backward(tournament.status, tournament'.status)]_vars

\* the calls that generate fixtures
GenerateOps == {"generateFixtures", "adminGenerateFixtures"}

\* C17: a call of fixture generation for a tournament that already has matches
\* creates no further match.
C17_GenerationIsGuarded ==
    [][(matches # <<>> /\ last'.op \in GenerateOps) => matches' = matches]_vars

\* the payment at index n is a completed entry-fee payment for the tournament
PaidEntry(n) ==
    /\ payments[n].status = "completed"
    /\ payments[n].type = "entry_fee"
    /\ payments[n].tournament

\* user u is one of the tournament's participants
IsParticipant(u) == \E i \in 1..Len(tournament.participants) : tournament.participants[i].player = u

\* C18: once an entry-fee payment for the tournament is completed, by callback,
\* polling or approval, its payer is eventually a participant of the tournament.
C18_PaidPlayerIsRegistered ==
    \A n \in 1..MaxPayments : PaidEntry(n) ~> IsParticipant(payments[n].user)

\* the verify endpoints
EndpointOps == {"verifyRequest", "adminRouteVerify"}

\* C19: a request to a verify endpoint completes a match only when its sender
\* is the authenticated admin.
C19_OnlyAdminVerifies ==
    [][\A i \in 1..Len(matches) :
         (/\ Called(EndpointOps, i)
          /\ matches[i].status # "completed"
          /\ matches'[i].status = "completed")
         => last'.caller \in AdminIds]_vars

\* the match numbers in use in the tournament
MatchNumbers == {matches[k].matchNumber : k \in 1..Len(matches)}

\* C20: the match numbers of the tournament's matches are pairwise distinct
\* and are exactly 1..k, k being the number of its matches.
C20_MatchNumbersGapless == MatchNumbers = 1..Len(matches)

\* entry a sorts strictly before entry b by (points, wins, winRate) descending
SortsBefore(a, b) ==
    \/ a.points > b.points
    \/ a.points = b.points /\ a.wins > b.wins
    \/ /\ a.points = b.points /\ a.wins = b.wins
       /\ a.winRate.num * b.winRate.den > b.winRate.num * a.winRate.den

\* the ranks of a board are 1..n without duplicates and follow its sort order
RanksInOrder(coll) ==
    /\ {coll[i].rank : i \in 1..Len(coll)} = 1..Len(coll)
    /\ \A i, j \in 1..Len(coll) : i # j => coll[i].rank # coll[j].rank
    /\ \A i, j \in 1..Len(coll) : SortsBefore(coll[i], coll[j]) => coll[i].rank < coll[j].rank

OneEntryPerPlayer ==
    \A i, j \in 1..Len(leaderboard) :
        leaderboard[i].player = leaderboard[j].player => i = j

CurrentRound(coll) ==
    {k \in 1..Len(coll) : coll[k].round = coll[Len(coll)].round}

\* every match of the current round is completed
RoundDone(coll) ==
    coll # <<>> /\ \A k \in CurrentRound(coll) : coll[k].status = "completed"

\* the players who won a match of the current round, byes included
RoundWinners(coll) ==
    {coll[k].result.winner : k \in {j \in CurrentRound(coll) : coll[j].result.winner # NoUser}}
    \cup {coll[k].player1.user : k \in {j \in CurrentRound(coll) : ~coll[j].player2.present}}

\* the matches among those added by a step in which player u has a slot
PlacedIn(before, after, u) ==
    {k \in (Len(before) + 1)..Len(after) :
        \/ after[k].player1.user = u
        \/ after[k].player2.present /\ after[k].player2.user = u}

\* C23: generateNextKnockoutRound adds matches only when every match of the
\* current round is completed, and then it places every winner of the round
\* in exactly one new match and nobody else in any.
C23_WinnersAdvanceOnce ==
    [][last'.op = "nextRound" =>
          /\ Len(matches') > Len(matches) => RoundDone(matches)
          /\ (RoundDone(matches) /\ Cardinality(RoundWinners(matches)) > 1) =>
                \A u \in Entrants :
                    Cardinality(PlacedIn(matches, matches', u)) =
                        IF u \in RoundWinners(matches) THEN 1 ELSE 0]_vars

\* scheduleMatches has returned
Scheduled == inflight # <<>> /\ inflight[1].pc = "schedule" /\ inflight[1].at = "done"

\* round a is played before round b in a bracket or a league
PlayedBefore(a, b) ==
    \/ a.kind # "Final" /\ b.kind = "Final"
    \/ a.kind = "Round" /\ b.kind = "Round" /\ a.r < b.r

\* scheduledTime a is later than scheduledTime b
Later(a, b) == a.day > b.day \/ (a.day = b.day /\ a.minute > b.minute)

\* the matches scheduled on the day of match k
SameDay(k) == {j \in 1..Len(matches) : matches[j].scheduledTime.day = matches[k].scheduledTime.day}

\* C24: the fixtures are scheduled in round order, only on allowed weekdays,
\* at most matchesPerDay a day, and on one day every matchDuration +
\* breakBetweenMatches minutes from startTime on.
C24_ScheduledInRoundOrder ==
    Scheduled =>
        \A k \in 1..Len(matches) :
            /\ \A j \in 1..Len(matches) :
                  PlayedBefore(matches[k].round, matches[j].round) =>
                      ~Later(matches[k].scheduledTime, matches[j].scheduledTime)
            /\ (inflight[1].settings.startDay + matches[k].scheduledTime.day) % 7
                   \in inflight[1].settings.daysOfWeek
            /\ Cardinality(SameDay(k)) <= inflight[1].settings.matchesPerDay
            /\ {matches[j].scheduledTime.minute : j \in SameDay(k)} =
                   {n * (matchDuration + breakBetweenMatches) :
                        n \in 0..(Cardinality(SameDay(k)) - 1)}

\* scheduleMatches has been called
ScheduleCalled == inflight # <<>> /\ inflight[1].pc = "schedule"

\* C30: every call of scheduleMatches returns, with a scheduledTime on every
\* match, whatever daysOfWeek and matchesPerDay the tournament carries.
C30_SchedulingTerminates ==
    ScheduleCalled ~>
        (Scheduled /\ \A k \in 1..Len(matches) : matches[k].scheduledTime # NoTime)

\* C25: a disputed match stays disputed through every submitScore call; only
\* an administrative verifyResult takes it out of that status.
C25_DisputeNeedsAdmin ==
    [][\A i \in 1..Len(matches) :
         (matches[i].status = "disputed" /\ matches'[i].status # "disputed")
            => last'.op \in VerifyOps]_vars

\* the result of a completed match agrees with its scores
ResultConsistent(m) ==
    \/ /\ m.result.isDraw
       /\ m.result.winner = NoUser /\ m.result.loser = NoUser
    \/ /\ ~m.result.isDraw
       /\ \/ ~m.player2.present /\ m.result.winner = m.player1.user
          \/ /\ m.player2.present
             /\ \/ /\ m.result.winner = m.player1.user
                   /\ m.player1.score > m.player2.score
                \/ /\ m.result.winner = m.player2.user
                   /\ m.player2.score > m.player1.score

\* C26: a completed match is either a draw without winner and loser, or has
\* as winner the player with the strictly higher score (or the sole player of
\* a bye match).
C26_CompletedResultConsistent ==
    \A i \in 1..Len(matches) :
        matches[i].status = "completed" => ResultConsistent(matches[i])

\* C27: once the one match of the league is completed, each of its two
\* players has exactly one match more on the global board than before it.
C27_MatchCountedOnce ==
    \A i \in 1..Len(matches) :
        matches[i].status = "completed" =>
            \A u \in {matches[i].player1.user, matches[i].player2.user} :
                EntryOf(leaderboard, u).totalMatches = 1

\* C28: a disputed match has both slots confirmed and two submitted scores
\* that differ.
C28_DisputedMeansScoresDiffer ==
    \A i \in 1..Len(matches) :
        matches[i].status = "disputed" =>
            /\ matches[i].player1.confirmed /\ matches[i].player2.confirmed
            /\ matches[i].player1.score # Null /\ matches[i].player2.score # Null
            /\ matches[i].player1.score # matches[i].player2.score

\* C29: the seed numbers of the tournament's participants are pairwise
\* distinct.
C29_SeedsDistinct ==
    \A i, j \in 1..Len(tournament.participants) :
        tournament.participants[i].seed = tournament.participants[j].seed => i = j

====
